---- MODULE Spec2Model ----
(***************************************************************************)
(* Skein / Project KG: the storage layer (nodes, edges, embeddings, sync    *)
(* cursors), the tool handlers built on it (skein_add, skein_connect) and   *)
(* the WCP connector's incremental sync.                                    *)
(*                                                                          *)
(* Time: _now() is a clock that never returns the same value to two         *)
(* different operations; every operation that reads it sees `now` and       *)
(* leaves now + 1 behind.  Identifiers: uuid4() is a counter; a drawn id    *)
(* that is never stored leaves no trace, so the counter moves on a store.   *)
(***************************************************************************)
EXTENDS Integers, Sequences, FiniteSets, Bags, TLC

\* ---------------------------------------------------------------- bounds
MaxNodes == 2
MaxEdges == 2
MaxOps == 3
MaxSyncOps == 7
MaxEdits == 1
MaxEdgeSpecs == 2
MaxEmbedFailures == 1
MaxWalkNodes == 4
MaxCandidates == 3
MaxScore == 2
MaxRankNodes == 3
MaxLimit == 2
MaxDeletes == 1
MaxHookRuns == 3
MaxInstallRuns == 3
MaxEntries == 2

\* ------------------------------------------------------------- constants
NULL == "<None>"
EMPTY == ""
GhostId == 0
NoDate == -1
DefaultWeight == 1
ModelName == "BAAI/bge-small-en-v1.5"
StartTime == 2
MaxDepth == 3

\* ------------------------------------------------------------ state
VARIABLES nodes, edges, embeddings, sync_state, now, budget,
          nextNodeId, nextEdgeId, files, pass, ret, walk, search, nodes_fts, rank,
          callers, hook, settings

vars == <<nodes, edges, embeddings, sync_state, now, budget,
          nextNodeId, nextEdgeId, files, pass, ret, walk, search, nodes_fts, rank,
          callers, hook, settings>>

storeVars == <<nodes, edges, embeddings, sync_state, nodes_fts>>

\* ------------------------------------------------------------ records
Node(id, type, title, body, source, source_id, source_uri, project, created_at, updated_at, archived) ==
  [id |-> id, type |-> type, title |-> title, body |-> body, source |-> source,
   source_id |-> source_id, source_uri |-> source_uri, project |-> project,
   created_at |-> created_at, updated_at |-> updated_at, archived |-> archived]

Edge(id, source_id, target_id, type, weight, created_at) ==
  [id |-> id, source_id |-> source_id, target_id |-> target_id, type |-> type,
   weight |-> weight, metadata |-> NULL, created_at |-> created_at]

NoNode == [id |-> GhostId]
NoEdge == [id |-> GhostId]

Falsy(s) == s \in {NULL, EMPTY}

NodeIds(N) == {n.id : n \in N}

\* embeddings.embed(text): the external model, deterministic in its input
Embed(text) == <<"vec", text>>

EmbedText(title, body) == title \o "\n\n" \o body

\* ------------------------------------------------------------ storage layer

InsertNode(N, node) ==
  IF node.id \in NodeIds(N)
  THEN [nodes |-> N, raised |-> TRUE]
  ELSE [nodes |-> N \cup {node}, raised |-> FALSE]

\* the rows the dedup lookup matches; fetchone() returns one of them
FindNodeBySource(N, source, source_id) ==
  IF Falsy(source_id) THEN {}
  ELSE {n \in N : n.source = source /\ n.source_id = source_id}

\* a dedup lookup that compares the key without asking whether source_id is set
ExistingForAnyKey(N, node) ==
  LET found == {n \in N : n.source = node.source /\ n.source_id = node.source_id}
  IN IF found = {} THEN {NoNode} ELSE found

\* what `existing` can be in upsert_node
ExistingFor(N, node) ==
  LET found == IF Falsy(node.source_id) THEN {}
               ELSE FindNodeBySource(N, node.source, node.source_id)
  IN IF found = {} THEN {NoNode} ELSE found

\* an UPDATE that leaves updated_at out of its SET list
UpdateNodeKeepStamp(N, existing, node) ==
  {IF n.id = existing.id
   THEN [n EXCEPT !.type = node.type, !.title = node.title, !.body = node.body,
                  !.source_uri = node.source_uri, !.project = node.project]
   ELSE n : n \in N}

UpdateNode(N, existing, node) ==
  {IF n.id = existing.id
   THEN [n EXCEPT !.type = node.type, !.title = node.title, !.body = node.body,
                  !.source_uri = node.source_uri, !.project = node.project,
                  !.updated_at = node.updated_at]
   ELSE n : n \in N}

\* an upsert that never takes the update branch
UpsertNodeAlwaysInsert(N, node, existing) ==
  [nodes |-> InsertNode(N, node).nodes, node |-> node,
   created |-> ~InsertNode(N, node).raised, raised |-> InsertNode(N, node).raised]

UpsertNode(N, node, existing) ==
  IF existing # NoNode
  THEN [nodes |-> UpdateNode(N, existing, node),
        node |-> [node EXCEPT !.id = existing.id, !.created_at = existing.created_at],
        created |-> FALSE, raised |-> FALSE]
  ELSE [nodes |-> InsertNode(N, node).nodes, node |-> node,
        created |-> ~InsertNode(N, node).raised, raised |-> InsertNode(N, node).raised]

GetNode(N, node_id) ==
  IF node_id \in NodeIds(N) THEN CHOOSE n \in N : n.id = node_id ELSE NoNode

SameTriple(e, f) ==
  e.source_id = f.source_id /\ e.target_id = f.target_id /\ e.type = f.type

EdgeConflict(E, edge) == \E e \in E : e.id = edge.id \/ SameTriple(e, edge)

\* PRAGMA foreign_keys left off
ForeignKeysOff(N, edge) == TRUE

ForeignKeysOk(N, edge) ==
  edge.source_id \in NodeIds(N) /\ edge.target_id \in NodeIds(N)

InsertEdge(E, N, edge) ==
  IF EdgeConflict(E, edge)
  THEN [edges |-> E, raised |-> TRUE, msg |-> "IntegrityError: UNIQUE constraint failed"]
  ELSE IF ~ForeignKeysOk(N, edge)
  THEN [edges |-> E, raised |-> TRUE, msg |-> "IntegrityError: FOREIGN KEY constraint failed"]
  ELSE [edges |-> E \cup {edge}, raised |-> FALSE, msg |-> ""]

\* INSERT OR REPLACE instead of INSERT OR IGNORE
UpsertEdgeReplace(E, N, edge) ==
  IF ~ForeignKeysOk(N, edge)
  THEN [edges |-> E, raised |-> TRUE, msg |-> "IntegrityError: FOREIGN KEY constraint failed"]
  ELSE [edges |-> {e \in E : ~(e.id = edge.id \/ SameTriple(e, edge))} \cup {edge},
        raised |-> FALSE, msg |-> ""]

UpsertEdge(E, N, edge) ==
  IF EdgeConflict(E, edge)
  THEN [edges |-> E, raised |-> FALSE, msg |-> ""]
  ELSE IF ~ForeignKeysOk(N, edge)
  THEN [edges |-> E, raised |-> TRUE, msg |-> "IntegrityError: FOREIGN KEY constraint failed"]
  ELSE [edges |-> E \cup {edge}, raised |-> FALSE, msg |-> ""]

\* a plain INSERT into a table without the node_id key
StoreEmbeddingAppend(M, N, node_id, vector, model, t) ==
  IF node_id \notin NodeIds(N)
  THEN [embeddings |-> M, raised |-> TRUE]
  ELSE [embeddings |-> M \cup {[node_id |-> node_id, vector |-> vector,
                                 model |-> model, created_at |-> t]},
        raised |-> FALSE]

\* an INSERT OR IGNORE: the row a node already has is kept
StoreEmbeddingKeepFirst(M, N, node_id, vector, model, t) ==
  IF node_id \notin NodeIds(N)
  THEN [embeddings |-> M, raised |-> TRUE]
  ELSE IF \E m \in M : m.node_id = node_id
  THEN [embeddings |-> M, raised |-> FALSE]
  ELSE [embeddings |-> M \cup {[node_id |-> node_id, vector |-> vector,
                                 model |-> model, created_at |-> t]},
        raised |-> FALSE]

StoreEmbedding(M, N, node_id, vector, model, t) ==
  IF node_id \notin NodeIds(N)
  THEN [embeddings |-> M, raised |-> TRUE]
  ELSE [embeddings |-> {m \in M : m.node_id # node_id}
                         \cup {[node_id |-> node_id, vector |-> vector,
                                model |-> model, created_at |-> t]},
        raised |-> FALSE]

\* ------------------------------------------------------------ lexical index

\* a row of nodes_fts: the rowid of the node row and the text indexed under it
FtsRow(n) == [rowid |-> n.id, title |-> n.title, body |-> n.body]

\* trigger nodes_ai
NodesAi(F, new) == F (+) SetToBag({FtsRow(new)})

\* trigger nodes_ad
NodesAd(F, old) == F (-) SetToBag({FtsRow(old)})

\* an update trigger without its 'delete' command
NodesAuKeepOld(F, old, new) == F (+) SetToBag({FtsRow(new)})

\* trigger nodes_au: the old text leaves the index, the new text enters it
NodesAu(F, old, new) == (F (-) SetToBag({FtsRow(old)})) (+) SetToBag({FtsRow(new)})

\* the index the insert triggers have built over the stored nodes
FtsOf(N) == SetToBag({FtsRow(n) : n \in N})

\* the triggers insert_node fires
InsertTriggers(F, ins, node) == IF ins.raised THEN F ELSE NodesAi(F, node)

\* the triggers upsert_node fires: nodes_au on the row it updates, nodes_ai on the
\* row it inserts
UpsertTriggers(F, up, existing) ==
  IF up.raised THEN F
  ELSE IF up.created THEN NodesAi(F, up.node)
  ELSE NodesAu(F, existing, GetNode(up.nodes, existing.id))

\* ------------------------------------------------------------ call results

NoVector == <<>>

\* what the last call was given and what came back: the node and edge it was about,
\* the vector it stored, a count (edges created, or the id an error names) and a message
Ret(op, status, node, created, edge, count, msg, vector) ==
  [op |-> op, status |-> status, node |-> node, created |-> created,
   edge |-> edge, count |-> count, msg |-> msg, vector |-> vector]

\* ------------------------------------------------------------ inputs

\* (type, weight) of a skein_connect call; of an upsert_edge call
ConnectKinds == {<<"relates_to", 1>>, <<"relates_to", 2>>, <<"depends_on", 1>>}
UpsertKinds == {<<"relates_to", 2>>}
AddTexts == {<<"t1", "b1">>}
UpsertTexts == {<<"t2", "b2">>}
AddSources == {<<"manual", NULL>>, <<"wcp", "A">>}
UpsertSources == {<<"manual", NULL>>, <<"manual", EMPTY>>, <<"wcp", "A">>}
\* (vector, model) of a store_embedding call
StoreInputs == {<<Embed("q1"), ModelName>>, <<Embed("q2"), "other-model">>}

KnownIds == NodeIds(nodes) \cup {GhostId}

\* edge specs of a skein_add call: [{target_id, type}], weight left to its default
EdgeSpec(target_id) == [target_id |-> target_id, type |-> "relates_to", weight |-> DefaultWeight]

\* a set of target ids as a list of specs, highest id first: a missing target
\* (GhostId) comes last, where the loop reaches it after some inserts
RECURSIVE Descending(_)
Descending(S) ==
  IF S = {} THEN <<>>
  ELSE LET m == CHOOSE x \in S : \A y \in S : y <= x
       IN <<EdgeSpec(m)>> \o Descending(S \ {m})

\* the lists tried: distinct targets, or one existing target named twice
EdgeSpecLists ==
  {Descending(S) : S \in {T \in SUBSET KnownIds : Cardinality(T) <= MaxEdgeSpecs}}
    \cup {<<EdgeSpec(t), EdgeSpec(t)>> : t \in IF MaxEdgeSpecs >= 2 THEN NodeIds(nodes) ELSE {}}

\* ------------------------------------------------------------ skein_add

\* the loop over edge_spec: stops at the first insert_edge that raises
RECURSIVE AddEdges(_, _, _, _, _, _, _)
AddEdges(E, N, node_id, specs, eid, t, count) ==
  IF specs = <<>>
  THEN [edges |-> E, raised |-> FALSE, nextEdgeId |-> eid, count |-> count, msg |-> ""]
  ELSE LET spec == Head(specs)
           edge == Edge(eid, node_id, spec.target_id, spec.type, spec.weight, t)
           r == InsertEdge(E, N, edge)
       IN IF r.raised
          THEN [edges |-> E, raised |-> TRUE, nextEdgeId |-> eid, count |-> count, msg |-> r.msg]
          ELSE AddEdges(r.edges, N, node_id, Tail(specs), eid + 1, t, count + 1)

SkeinAdd(type, title, body, source, source_id, project, specs, embed_raises) ==
  /\ pass.pc = "idle"
  /\ budget > 0
  /\ nextNodeId <= MaxNodes
  /\ nextEdgeId + Len(specs) - 1 <= MaxEdges
  /\ LET node == Node(nextNodeId, type, title, body, source, source_id, NULL, project,
                      now, now, FALSE)
         ins == InsertNode(nodes, node)
         emb == StoreEmbedding(embeddings, ins.nodes, node.id,
                               Embed(EmbedText(title, body)), ModelName, now)
         added == AddEdges(edges, ins.nodes, node.id, specs, nextEdgeId, now, 0)
     IN /\ nodes' = ins.nodes
        /\ nodes_fts' = InsertTriggers(nodes_fts, ins, node)
        /\ nextNodeId' = nextNodeId + 1
        /\ IF embed_raises
           THEN /\ UNCHANGED <<embeddings, edges, nextEdgeId>>
                /\ ret' = Ret("skein_add", "raise", node, TRUE, NoEdge, 0, "embed failed", NoVector)
           ELSE /\ embeddings' = emb.embeddings
                /\ edges' = added.edges
                /\ nextEdgeId' = added.nextEdgeId
                /\ ret' = IF added.raised
                          THEN Ret("skein_add", "raise", node, TRUE, NoEdge, added.count, added.msg,
                                   Embed(EmbedText(title, body)))
                          ELSE Ret("skein_add", "ok", node, TRUE, NoEdge, added.count, "",
                                   Embed(EmbedText(title, body)))
  /\ now' = now + 1
  /\ budget' = budget - 1
  /\ UNCHANGED <<sync_state, files, pass, walk, search, rank, callers, hook, settings>>

\* ------------------------------------------------------------ skein_connect

\* a handler that verifies the source node only
MissingEndpointSourceOnly(N, source_id, target_id) ==
  IF GetNode(N, source_id) = NoNode THEN "Source" ELSE "none"

\* "Verify both nodes exist": which endpoint the handler reports missing
MissingEndpoint(N, source_id, target_id) ==
  IF GetNode(N, source_id) = NoNode THEN "Source"
  ELSE IF GetNode(N, target_id) = NoNode THEN "Target"
  ELSE "none"

SkeinConnect(source_id, target_id, type, weight) ==
  /\ pass.pc = "idle"
  /\ budget > 0
  /\ budget' = budget - 1
  /\ LET missing == MissingEndpoint(nodes, source_id, target_id)
         request == Edge(GhostId, source_id, target_id, type, weight, NoDate)
     IN IF missing # "none"
        THEN /\ ret' = Ret("skein_connect", "error", NoNode, FALSE, request,
                           IF missing = "Source" THEN source_id ELSE target_id,
                           missing \o " node not found", NoVector)
             /\ UNCHANGED <<edges, nextEdgeId, now>>
        ELSE /\ nextEdgeId <= MaxEdges
             /\ LET edge == Edge(nextEdgeId, source_id, target_id, type, weight, now)
                    r == InsertEdge(edges, nodes, edge)
                IN /\ edges' = r.edges
                   /\ nextEdgeId' = IF r.raised THEN nextEdgeId ELSE nextEdgeId + 1
                   /\ ret' = Ret("skein_connect", IF r.raised THEN "raise" ELSE "ok",
                                 NoNode, FALSE, edge, 0, r.msg, NoVector)
             /\ now' = now + 1
  /\ UNCHANGED <<nodes, nodes_fts, embeddings, sync_state, nextNodeId, files, pass, walk, search, rank, callers, hook, settings>>

\* ------------------------------------------------------------ library calls on the store

DbUpsertNode(type, title, body, source, source_id, project) ==
  /\ pass.pc = "idle"
  /\ budget > 0
  /\ nextNodeId <= MaxNodes
  /\ LET node == Node(nextNodeId, type, title, body, source, source_id, NULL, project,
                      now, now, FALSE)
     IN \E existing \in ExistingFor(nodes, node) :
          LET r == UpsertNode(nodes, node, existing)
          IN /\ nodes' = r.nodes
             /\ nodes_fts' = UpsertTriggers(nodes_fts, r, existing)
             /\ nextNodeId' = IF r.created THEN nextNodeId + 1 ELSE nextNodeId
             /\ ret' = Ret("upsert_node", "ok", r.node, r.created, NoEdge, 0, "", NoVector)
  /\ now' = now + 1
  /\ budget' = budget - 1
  /\ UNCHANGED <<edges, embeddings, sync_state, nextEdgeId, files, pass, walk, search, rank, callers, hook, settings>>

DbUpsertEdge(source_id, target_id, type, weight) ==
  /\ pass.pc = "idle"
  /\ budget > 0
  /\ nextEdgeId <= MaxEdges
  /\ LET edge == Edge(nextEdgeId, source_id, target_id, type, weight, now)
         r == UpsertEdge(edges, nodes, edge)
     IN /\ edges' = r.edges
        /\ nextEdgeId' = IF edge \in r.edges THEN nextEdgeId + 1 ELSE nextEdgeId
        /\ ret' = Ret("upsert_edge", IF r.raised THEN "raise" ELSE "ok", NoNode, FALSE, edge, 0, r.msg, NoVector)
  /\ now' = now + 1
  /\ budget' = budget - 1
  /\ UNCHANGED <<nodes, nodes_fts, embeddings, sync_state, nextNodeId, files, pass, walk, search, rank, callers, hook, settings>>

DbStoreEmbedding(node_id, vector, model) ==
  /\ pass.pc = "idle"
  /\ budget > 0
  /\ LET r == StoreEmbedding(embeddings, nodes, node_id, vector, model, now)
     IN /\ embeddings' = r.embeddings
        /\ ret' = Ret("store_embedding", IF r.raised THEN "raise" ELSE "ok",
                      GetNode(nodes, node_id), FALSE, NoEdge, node_id, model, vector)
  /\ now' = now + 1
  /\ budget' = budget - 1
  /\ UNCHANGED <<nodes, nodes_fts, edges, sync_state, nextNodeId, nextEdgeId, files, pass, walk, search, rank, callers, hook, settings>>

\* ------------------------------------------------------------ the WCP document tree

ABSENT == "<absent>"
LongBody == "b-long"
Scopes == <<"ns1", "ns2">>
ItemOrder == <<"ns1/A.md", "ns1/B.md", "ns2/A.md">>
ArtifactOrder == <<"ns1/B/x.md">>
FilePaths == {"ns1/A.md", "ns1/B.md", "ns1/B/x.md", "ns2/A.md"}
\* the documents a connector run starts with; ns2 is an empty namespace directory
InitSyncFiles == {"ns1/A.md", "ns1/B.md", "ns1/B/x.md"}

PathInfo ==
  [f \in FilePaths |->
     CASE f = "ns1/A.md" -> [ns |-> "ns1", kind |-> "item", stem |-> "A", dir |-> NULL, name |-> "A.md"]
       [] f = "ns1/B.md" -> [ns |-> "ns1", kind |-> "item", stem |-> "B", dir |-> NULL, name |-> "B.md"]
       [] f = "ns1/B/x.md" -> [ns |-> "ns1", kind |-> "artifact", stem |-> "x", dir |-> "B", name |-> "x.md"]
       [] f = "ns2/A.md" -> [ns |-> "ns2", kind |-> "item", stem |-> "A", dir |-> NULL, name |-> "A.md"]]

Doc(id, title, parent, created, updated, body, activity, heading, ok) ==
  [id |-> id, title |-> title, parent |-> parent, created |-> created, updated |-> updated,
   body |-> body, activity |-> activity, heading |-> heading, ok |-> ok]

\* the contents a document can have
Variants(f) ==
  CASE f = "ns1/A.md" -> {Doc(ABSENT, "t1", "B", 0, 1, "b1", "", NULL, TRUE),
                          Doc(ABSENT, "t2", "B", 0, 1, "b2", "", NULL, TRUE),
                          Doc(ABSENT, "t1", "B", 0, 1, "b1", "", NULL, FALSE)}
    [] f = "ns1/B.md" -> {Doc(ABSENT, ABSENT, NULL, NoDate, NoDate, "b1", "a1", NULL, TRUE),
                          Doc(NULL, "t2", NULL, NoDate, NoDate, "b1", "", NULL, TRUE)}
    [] f = "ns1/B/x.md" -> {Doc(ABSENT, ABSENT, NULL, NoDate, NoDate, "b1", "", NULL, TRUE),
                            Doc(ABSENT, ABSENT, NULL, NoDate, NoDate, LongBody, "", "h1", TRUE)}
    [] f = "ns2/A.md" -> {Doc(ABSENT, "t3", NULL, 1, NoDate, "b3", "", NULL, TRUE),
                          Doc("B", "t3", NULL, 1, NoDate, "b3", "", NULL, TRUE)}

File(doc, mtime) == [doc |-> doc, mtime |-> mtime]

\* sorted(ns_dir.glob("*.md")) followed by the sorted artifacts of the item directories
ScopeQueue(tree, ns) ==
  SelectSeq(ItemOrder \o ArtifactOrder, LAMBDA f : f \in DOMAIN tree /\ PathInfo[f].ns = ns)

\* the two listings apart: the work items are globbed when the scope starts, the
\* artifacts when the loop over the work items is over
ItemQueue(tree, ns) == SelectSeq(ScopeQueue(tree, ns), LAMBDA f : PathInfo[f].kind = "item")
ArtifactQueue(tree, ns) == SelectSeq(ScopeQueue(tree, ns), LAMBDA f : PathInfo[f].kind = "artifact")

\* ------------------------------------------------------------ WCP connector

ToStr(v) == IF v = NULL THEN "None" ELSE v

\* str.title() of the stem with dashes turned into spaces
TitleCase(stem) == IF stem = "x" THEN "X" ELSE stem

\* content[:2000]
Truncate(content) == IF content = LongBody THEN "b-long[:2000]" ELSE content

DateToIso(val, t) == IF val = NoDate THEN t ELSE val

SyncResult(source_key) ==
  [connector |-> "wcp", source_key |-> source_key, nodes_created |-> 0,
   nodes_updated |-> 0, edges_created |-> 0, errors |-> <<>>]

ItemId(f, doc) == IF doc.id = ABSENT THEN PathInfo[f].stem ELSE doc.id

FullBody(doc) ==
  IF doc.activity # "" THEN doc.body \o "\n" \o "\n\n## Activity\n\n" \o doc.activity
  ELSE doc.body

\* the Node a document is turned into, before the upsert
DocNode(f, doc, id, t) ==
  IF PathInfo[f].kind = "item"
  THEN Node(id, "work_item",
            "[" \o ToStr(ItemId(f, doc)) \o "] " \o (IF doc.title = ABSENT THEN PathInfo[f].stem ELSE doc.title),
            FullBody(doc), "wcp", ItemId(f, doc), f, PathInfo[f].ns,
            DateToIso(doc.created, t), DateToIso(doc.updated, t), FALSE)
  ELSE Node(id, "document",
            IF doc.heading # NULL THEN doc.heading ELSE TitleCase(PathInfo[f].stem),
            doc.body, "wcp", PathInfo[f].dir \o "/" \o PathInfo[f].name, f, PathInfo[f].ns,
            t, t, FALSE)

DocEmbedText(f, doc, node) ==
  IF PathInfo[f].kind = "item" THEN EmbedText(node.title, doc.body)
  ELSE EmbedText(node.title, Truncate(doc.body))

\* the key the parent is looked up by; NULL when the document declares none
ParentKey(f, doc) ==
  IF PathInfo[f].kind = "item" THEN (IF Falsy(doc.parent) THEN NULL ELSE doc.parent)
  ELSE PathInfo[f].dir

ParentEdge(f, id, node, parent, t) ==
  IF PathInfo[f].kind = "item"
  THEN Edge(id, node.id, parent.id, "depends_on", DefaultWeight, t)
  ELSE Edge(id, parent.id, node.id, "relates_to", DefaultWeight, t)

\* fetchone() of the parent lookup
ParentsFor(N, key) ==
  IF FindNodeBySource(N, "wcp", key) = {} THEN {NoNode} ELSE FindNodeBySource(N, "wcp", key)

\* "if last_sync and not full": the modification time is read only then
Incremental == pass.cutoff # NoDate /\ ~pass.full

\* md_path.stat() on a path that was listed and is gone: outside the try
StatRaises(f) == Incremental /\ f \notin DOMAIN files

SkippedNever(f) == FALSE

Skipped(f) ==
  /\ Incremental
  /\ f \in DOMAIN files
  /\ files[f].mtime < pass.cutoff

\* get_sync_state: the row of (connector, source_key), None when there is none
GetSyncState(S, connector, source_key) ==
  {st \in S : st.connector = connector /\ st.source_key = source_key}

SyncBegin(full) ==
  /\ pass.pc = "idle"
  /\ budget > 0
  /\ pass' = [pc |-> "scopes", full |-> full, scopes |-> Scopes, scope |-> NULL,
              cutoff |-> NoDate, phase |-> "items", queue |-> <<>>, listed |-> <<>>,
              handled |-> <<>>, result |-> SyncResult(NULL), results |-> <<>>,
              raised |-> pass.raised]
  /\ budget' = budget - 1
  /\ ret' = Ret("skein_sync", "running", NoNode, FALSE, NoEdge, 0, "", NoVector)
  /\ UNCHANGED <<storeVars, now, nextNodeId, nextEdgeId, files, walk, search, rank, callers, hook, settings>>

SyncScopeStart ==
  /\ pass.pc = "scopes"
  /\ pass.scopes # <<>>
  /\ LET ns == Head(pass.scopes)
         states == GetSyncState(sync_state, "wcp", ns)
     IN pass' = [pass EXCEPT !.pc = "docs", !.scope = ns, !.scopes = Tail(pass.scopes),
                             !.cutoff = IF states # {} /\ ~pass.full
                                        THEN (CHOOSE st \in states : TRUE).last_sync
                                        ELSE NoDate,
                             !.phase = "items",
                             !.queue = ItemQueue(files, ns),
                             !.listed = ItemQueue(files, ns),
                             !.handled = <<>>,
                             !.result = SyncResult(ns)]
  /\ UNCHANGED <<storeVars, now, budget, nextNodeId, nextEdgeId, files, ret, walk, search, rank, callers, hook, settings>>

\* what became of a listed document in this pass (kept for the properties)
Handled(f, outcome) == [doc |-> f, outcome |-> outcome]

\* f"{md_path.name}: {e}" for a work item, f"{artifact_path}: {e}" for an artifact
ErrorString(f, e) == (IF PathInfo[f].kind = "item" THEN PathInfo[f].name ELSE f) \o ": " \o e

\* the documents still to come after one failed: the except clause lets the loop go on
RestAfterErrorAbort(queue) == <<>>

RestAfterError(queue) == Tail(queue)

\* the second loop: the artifacts are listed once the work items are through
SyncArtifacts ==
  /\ pass.pc = "docs"
  /\ pass.phase = "items"
  /\ pass.queue = <<>>
  /\ pass' = [pass EXCEPT !.phase = "artifacts",
                          !.queue = ArtifactQueue(files, pass.scope),
                          !.listed = @ \o ArtifactQueue(files, pass.scope)]
  /\ UNCHANGED <<storeVars, now, budget, nextNodeId, nextEdgeId, files, ret, walk, search, rank, callers, hook, settings>>

\* stat() raises outside the try: the exception leaves sync() and skein_sync
SyncFatal ==
  /\ pass.pc = "docs"
  /\ pass.queue # <<>>
  /\ StatRaises(Head(pass.queue))
  /\ pass' = [pass EXCEPT !.pc = "idle"]
  /\ ret' = Ret("skein_sync", "raise", NoNode, FALSE, NoEdge, 0, Head(pass.queue), NoVector)
  /\ UNCHANGED <<storeVars, now, budget, nextNodeId, nextEdgeId, files, walk, search, rank, callers, hook, settings>>

SyncSkip ==
  /\ pass.pc = "docs"
  /\ pass.queue # <<>>
  /\ Skipped(Head(pass.queue))
  /\ pass' = [pass EXCEPT !.queue = Tail(pass.queue),
                          !.handled = Append(@, Handled(Head(pass.queue), "skipped"))]
  /\ ret' = Ret("sync_doc", "skipped", NoNode, FALSE, NoEdge, 0, Head(pass.queue), NoVector)
  /\ UNCHANGED <<storeVars, now, budget, nextNodeId, nextEdgeId, files, walk, search, rank, callers, hook, settings>>

\* _sync_work_item / _sync_artifact inside the try of _sync_namespace
SyncDoc(embed_raises) ==
  /\ pass.pc = "docs"
  /\ pass.queue # <<>>
  /\ ~Skipped(Head(pass.queue))
  /\ ~StatRaises(Head(pass.queue))
  /\ budget > 0
  /\ embed_raises => pass.raised < MaxEmbedFailures
  /\ LET f == Head(pass.queue)
         doc == files[f].doc
         fresh == DocNode(f, doc, nextNodeId, now)
     IN IF f \notin DOMAIN files \/ ~doc.ok
        THEN /\ pass' = [pass EXCEPT !.queue = RestAfterError(pass.queue),
                                     !.handled = Append(@, Handled(f, "error")),
                                     !.result.errors = Append(@, ErrorString(f,
                                        IF f \notin DOMAIN files THEN "no such file"
                                        ELSE "parse error"))]
             /\ ret' = Ret("sync_doc", "error", NoNode, FALSE, NoEdge, 0, f, NoVector)
             /\ UNCHANGED <<nodes, nodes_fts, edges, embeddings, nextNodeId, nextEdgeId>>
        ELSE \E existing \in ExistingFor(nodes, fresh) :
               LET up == UpsertNode(nodes, fresh, existing)
                   counted == [pass.result EXCEPT
                                 !.nodes_created = IF up.created THEN @ + 1 ELSE @,
                                 !.nodes_updated = IF up.created THEN @ ELSE @ + 1]
                   emb == StoreEmbedding(embeddings, up.nodes, up.node.id,
                                         Embed(DocEmbedText(f, doc, up.node)), ModelName, now)
               IN /\ nodes' = up.nodes
                  /\ nodes_fts' = UpsertTriggers(nodes_fts, up, existing)
                  /\ nextNodeId' = IF up.created THEN nextNodeId + 1 ELSE nextNodeId
                  /\ IF embed_raises
                     THEN /\ pass' = [pass EXCEPT !.queue = RestAfterError(pass.queue),
                                                  !.raised = @ + 1,
                                                  !.handled = Append(@, Handled(f, "error")),
                                                  !.result = [counted EXCEPT
                                                     !.errors = Append(@, ErrorString(f, "embed failed"))]]
                          /\ ret' = Ret("sync_doc", "error", up.node, up.created, NoEdge, 0, f, NoVector)
                          /\ UNCHANGED <<edges, embeddings, nextEdgeId>>
                     ELSE /\ embeddings' = emb.embeddings
                          /\ \E parent \in ParentsFor(up.nodes, ParentKey(f, doc)) :
                               IF parent = NoNode
                               THEN /\ pass' = [pass EXCEPT !.queue = Tail(pass.queue),
                                                            !.handled = Append(@, Handled(f, "ok")),
                                                            !.result = counted]
                                    /\ ret' = Ret("sync_doc", "ok", up.node, up.created, NoEdge, 0, f,
                                                Embed(DocEmbedText(f, doc, up.node)))
                                    /\ UNCHANGED <<edges, nextEdgeId>>
                               ELSE LET edge == ParentEdge(f, nextEdgeId, up.node, parent, now)
                                        ue == UpsertEdge(edges, up.nodes, edge)
                                    IN /\ edges' = ue.edges
                                       /\ nextEdgeId' = IF edge \in ue.edges THEN nextEdgeId + 1
                                                        ELSE nextEdgeId
                                       /\ pass' = [pass EXCEPT !.queue = Tail(pass.queue),
                                                     !.handled = Append(@, Handled(f, "ok")),
                                                     !.result = [counted EXCEPT !.edges_created = @ + 1]]
                                       /\ ret' = Ret("sync_doc", "ok", up.node, up.created, edge, 1, f,
                                                   Embed(DocEmbedText(f, doc, up.node)))
  /\ now' = now + 1
  /\ budget' = budget - 1
  /\ UNCHANGED <<sync_state, files, walk, search, rank, callers, hook, settings>>

SetSyncStateAllScopes(S, state) ==
  {[st EXCEPT !.last_sync = state.last_sync, !.cursor = state.cursor] :
     st \in {x \in S : x.connector = state.connector}}
    \cup {x \in S : x.connector # state.connector} \cup {state}

SetSyncStateKeepOld(S, state) ==
  IF \E st \in S : st.connector = state.connector /\ st.source_key = state.source_key
  THEN S ELSE S \cup {state}

\* set_sync_state: INSERT OR REPLACE on (connector, source_key)
SetSyncState(S, state) ==
  {st \in S : ~(st.connector = state.connector /\ st.source_key = state.source_key)} \cup {state}

AdvanceCursorIfClean(result) == result.errors = <<>>

\* the cursor write is under no condition: it follows the loops whatever they recorded
AdvanceCursor(result) == TRUE

SyncScopeEnd ==
  /\ pass.pc = "docs"
  /\ pass.phase = "artifacts"
  /\ pass.queue = <<>>
  /\ sync_state' = IF AdvanceCursor(pass.result)
                   THEN SetSyncState(sync_state,
                          [connector |-> "wcp", source_key |-> pass.scope,
                           last_sync |-> now, cursor |-> now])
                   ELSE sync_state
  /\ pass' = [pass EXCEPT !.pc = "scopes", !.results = Append(@, pass.result)]
  /\ now' = now + 1
  /\ UNCHANGED <<nodes, nodes_fts, edges, embeddings, budget, nextNodeId, nextEdgeId, files, ret, walk, search, rank, callers, hook, settings>>

RECURSIVE SumField(_, _)
SumField(results, field) ==
  IF results = <<>> THEN 0 ELSE Head(results)[field] + SumField(Tail(results), field)

SyncReturn ==
  /\ pass.pc = "scopes"
  /\ pass.scopes = <<>>
  /\ pass' = [pass EXCEPT !.pc = "idle"]
  /\ ret' = Ret("skein_sync", "ok", NoNode, FALSE, NoEdge,
                SumField(pass.results, "nodes_created"), "", NoVector)
  /\ UNCHANGED <<storeVars, now, budget, nextNodeId, nextEdgeId, files, walk, search, rank, callers, hook, settings>>

\* an editor saves a new or an existing document: content, modification time = the clock
\* (budget > 1: an edit is explored only while an ingestion can follow it)
Edited == {f \in DOMAIN files : files[f].mtime >= StartTime}

\* documents deleted from the tree
Removed == InitSyncFiles \ DOMAIN files

EditFile(f, doc) ==
  /\ budget > 1
  /\ f \notin Edited \cup Removed
  /\ Cardinality(Edited \cup Removed) < MaxEdits
  /\ files' = [g \in DOMAIN files \cup {f} |-> IF g = f THEN File(doc, now) ELSE files[g]]
  /\ now' = now + 1
  /\ budget' = budget - 1
  /\ UNCHANGED <<storeVars, nextNodeId, nextEdgeId, pass, ret, walk, search, rank, callers, hook, settings>>

RemoveFile(f) ==
  /\ f \in DOMAIN files \ Edited
  /\ budget > 0
  /\ Cardinality(Edited \cup Removed) < MaxEdits
  /\ files' = [g \in DOMAIN files \ {f} |-> files[g]]
  /\ budget' = budget - 1
  /\ UNCHANGED <<storeVars, now, nextNodeId, nextEdgeId, pass, ret, walk, search, rank, callers, hook, settings>>

\* ------------------------------------------------------------ skein_get / get_neighbors

GetEdgesOut(E, node_id) == SetToBag({e \in E : e.source_id = node_id})

GetEdgesAll(E, node_id) == SetToBag(E)

\* get_edges(node_id, "both"): the rows with source_id = node_id, then the rows with
\* target_id = node_id, so a self-loop comes twice.  A bag: the row order is SQLite's.
GetEdges(E, node_id) ==
  SetToBag({e \in E : e.source_id = node_id}) (+) SetToBag({e \in E : e.target_id = node_id})

OtherTarget(edge, nid) == edge.target_id

\* other = edge.target_id if edge.source_id == nid else edge.source_id
Other(edge, nid) == IF edge.source_id = nid THEN edge.target_id ELSE edge.source_id

UnvisitedAll(others, visited) == others

\* "if other not in visited_nodes"
Unvisited(others, visited) == others \ visited

\* for nid in frontier: for edge in get_edges(nid): ...
RECURSIVE ExpandFrontier(_, _, _, _, _)
ExpandFrontier(E, todo, visited, next_frontier, all_edges) ==
  IF todo = {}
  THEN [visited |-> visited, next_frontier |-> next_frontier, all_edges |-> all_edges]
  ELSE LET nid == CHOOSE x \in todo : TRUE
           found == GetEdges(E, nid)
           fresh == Unvisited({Other(e, nid) : e \in BagToSet(found)}, visited)
       IN ExpandFrontier(E, todo \ {nid}, visited \cup fresh, next_frontier \cup fresh,
                         all_edges (+) found)

\* what skein_get returns: {"error"} or {"node", "neighbors", "edges"}
GetResult(error, node, neighbors, all_edges) ==
  [error |-> error, node |-> node, neighbors |-> neighbors, edges |-> all_edges]

NoResult == GetResult("", NoNode, {}, EmptyBag)

\* a traversal: the locals of get_neighbors, the frontiers expanded so far (kept for
\* the properties) and what the tool returned
IdleWalk ==
  [pc |-> "idle", seed |-> GhostId, depth |-> 0, round |-> 0, visited |-> {}, frontier |-> {},
   all_edges |-> EmptyBag, expanded |-> <<>>, result |-> NoResult]

SkeinGet(id, depth) ==
  /\ pass.pc = "idle"
  /\ walk.pc \in {"idle", "done"}
  /\ walk' = IF GetNode(nodes, id) = NoNode
             THEN [IdleWalk EXCEPT !.pc = "done", !.seed = id, !.depth = depth,
                                   !.result = GetResult("Node not found", NoNode, {}, EmptyBag)]
             ELSE IF depth = 0
             THEN [IdleWalk EXCEPT !.pc = "done", !.seed = id, !.depth = depth,
                                   !.result = GetResult("", GetNode(nodes, id), {}, EmptyBag)]
             ELSE [IdleWalk EXCEPT !.pc = "rounds", !.seed = id, !.depth = depth,
                                   !.visited = {id}, !.frontier = {id}]
  /\ UNCHANGED <<storeVars, now, budget, nextNodeId, nextEdgeId, files, pass, ret, search, rank, callers, hook, settings>>

\* one turn of "for _ in range(depth)"
NeighborsRound ==
  /\ walk.pc = "rounds"
  /\ LET r == ExpandFrontier(edges, walk.frontier, walk.visited, {}, walk.all_edges)
     IN walk' = [walk EXCEPT !.visited = r.visited,
                             !.frontier = r.next_frontier,
                             !.all_edges = r.all_edges,
                             !.round = @ + 1,
                             !.expanded = Append(@, walk.frontier),
                             !.pc = IF r.next_frontier = {} \/ walk.round + 1 = walk.depth
                                    THEN "collect" ELSE "rounds"]
  /\ UNCHANGED <<storeVars, now, budget, nextNodeId, nextEdgeId, files, pass, ret, search, rank, callers, hook, settings>>

\* the nodes of the visited ids are fetched and skein_get builds its answer
NeighborsReturn ==
  /\ walk.pc = "collect"
  /\ LET found == {GetNode(nodes, nid) : nid \in walk.visited} \ {NoNode}
     IN walk' = [walk EXCEPT !.pc = "done",
                             !.result = GetResult("", GetNode(nodes, walk.seed),
                                                  {n \in found : n.id # walk.seed},
                                                  walk.all_edges)]
  /\ UNCHANGED <<storeVars, now, budget, nextNodeId, nextEdgeId, files, pass, ret, search, rank, callers, hook, settings>>

\* the graphs traversed: nodes 1..MaxWalkNodes and any of these edges,
\* a path 1-2-..., a chord closing the cycle 1-2-3, a self-loop, a parallel edge of
\* another type and an edge against the direction of the path
WalkNode(i) == Node(i, "note", "t1", "b1", "manual", NULL, NULL, NULL, 1, 1, FALSE)

WalkEdges ==
  {Edge(i, i, i + 1, "relates_to", DefaultWeight, 1) : i \in 1..(MaxWalkNodes - 1)}
    \cup {Edge(MaxWalkNodes, 3, 1, "relates_to", DefaultWeight, 1),
          Edge(MaxWalkNodes + 1, 1, 1, "relates_to", DefaultWeight, 1),
          Edge(MaxWalkNodes + 2, 1, 2, "depends_on", DefaultWeight, 1),
          Edge(MaxWalkNodes + 3, 2, 1, "relates_to", DefaultWeight, 1)}

\* ------------------------------------------------------------ search

\* a float quotient a / b, kept exact
Quotient(a, b) == [num |-> a, den |-> b]

One == Quotient(1, 1)

RECURSIVE MinOf(_)
MinOf(scores) ==
  IF Len(scores) = 1 THEN scores[1]
  ELSE IF scores[1] <= MinOf(Tail(scores)) THEN scores[1] ELSE MinOf(Tail(scores))

RECURSIVE MaxOf(_)
MaxOf(scores) ==
  IF Len(scores) = 1 THEN scores[1]
  ELSE IF scores[1] >= MaxOf(Tail(scores)) THEN scores[1] ELSE MaxOf(Tail(scores))

NormUnreversed(score, min_score, max_score) ==
  IF max_score - min_score > 0 THEN Quotient(score - min_score, max_score - min_score) ELSE One

\* norm = (max_score - score) / score_range if score_range > 0 else 1.0
Norm(score, min_score, max_score) ==
  IF max_score - min_score > 0 THEN Quotient(max_score - score, max_score - min_score) ELSE One

\* _search_fts after the query: raw is the list of (node_id, bm25 score) rows
NormalizeFts(raw) ==
  IF raw = <<>> THEN <<>>
  ELSE LET raw_scores == [i \in DOMAIN raw |-> raw[i][2]]
       IN [i \in DOMAIN raw |->
             <<raw[i][1], Norm(raw[i][2], MinOf(raw_scores), MaxOf(raw_scores))>>]

\* bm25 scores: none above zero, lower is better
Scores == (0 - MaxScore)..0

\* what db.search_fts can return: rows of distinct nodes, ORDER BY score
RawLists ==
  {raw \in UNION {[1..k -> (1..MaxCandidates) \X Scores] : k \in 0..MaxCandidates} :
     \A i \in DOMAIN raw : \A j \in DOMAIN raw :
        i < j => raw[i][1] # raw[j][1] /\ raw[i][2] <= raw[j][2]}

IdleSearch == [raw |-> <<>>, raised |-> FALSE, fts |-> <<>>]

\* _search_fts: the query raises, or returns rows that are then normalized
SearchFts(raw, raises) ==
  /\ pass.pc = "idle"
  /\ walk.pc \in {"idle", "done"}
  /\ search' = [raw |-> IF raises THEN <<>> ELSE raw,
                raised |-> raises,
                fts |-> IF raises THEN <<>> ELSE NormalizeFts(raw)]
  /\ UNCHANGED <<storeVars, now, budget, nextNodeId, nextEdgeId, files, pass, ret, walk, rank, callers, hook, settings>>

\* ------------------------------------------------------------ hybrid ranking

\* float arithmetic, kept exact: quotients in lowest terms
RECURSIVE Gcd(_, _)
Gcd(a, b) == IF b = 0 THEN a ELSE Gcd(b, a % b)

Reduce(q) ==
  LET g == Gcd(IF q.num < 0 THEN 0 - q.num ELSE q.num, q.den)
  IN Quotient(q.num \div g, q.den \div g)

QAdd(a, b) == Reduce(Quotient(a.num * b.den + b.num * a.den, a.den * b.den))
QMul(a, b) == Reduce(Quotient(a.num * b.num, a.den * b.den))
QLess(a, b) == a.num * b.den < b.num * a.den

Zero == Quotient(0, 1)
FTS_WEIGHT == Quotient(4, 10)
VECTOR_WEIGHT == Quotient(6, 10)

\* what a query is to the store, the part the index engine and the embedding model
\* decide: the bm25 score of each indexed row (none above zero; NoMatch: the row does
\* not match), the
\* cosine similarity of each stored vector to the query vector, and whether the index
\* engine rejects the query
NoMatch == 1
Bm25Values == {NoMatch} \cup ((0 - 1)..0)
Sims == {0 - 1, 0, 1}

Min(a, b) == IF a <= b THEN a ELSE b

\* seq[:k]
Take(seq, k) == SubSeq(seq, 1, Min(k, Len(seq)))

\* the ids of S as a list, lowest key first, equal keys in id order
RECURSIVE OrderBy(_, _)
OrderBy(S, key) ==
  IF S = {} THEN <<>>
  ELSE LET first == CHOOSE x \in S : \A y \in S : key[x] < key[y] \/ (key[x] = key[y] /\ x <= y)
       IN <<first>> \o OrderBy(S \ {first}, key)

\* "if type_filter: sql += AND n.type = ?": a filter that is None or empty is no filter
Passes(value, filter) == Falsy(filter) \/ value = filter

\* a query that leaves the archived flag out of its WHERE clause
VisibleAll(n) == TRUE

\* "n.archived = 0"
Visible(n) == ~n.archived

\* the rows db.search_fts returns: (node_id, bm25 score), in the order given
FtsRows(ordered, bm25) == [i \in DOMAIN ordered |-> <<ordered[i], bm25[ordered[i]]>>]

\* db.search_fts: the indexed rows that match, joined with their nodes, ORDER BY score LIMIT
DbSearchFts(N, F, bm25, limit, type_filter, project_filter) ==
  FtsRows(Take(OrderBy({n.id : n \in {m \in N : /\ \E row \in BagToSet(F) : row.rowid = m.id
                                                  /\ bm25[m.id] # NoMatch
                                                  /\ Visible(m)
                                                  /\ Passes(m.type, type_filter)
                                                  /\ Passes(m.project, project_filter)}},
                       bm25),
               limit),
          bm25)

\* a lexical failure that is not caught: it leaves search as an exception
SearchFtsUncaught(raises, raw) ==
  [raised |-> raises, rows |-> IF raises THEN <<>> ELSE NormalizeFts(raw)]

\* _search_fts: "except Exception: return []", else the normalized rows
SearchFtsResult(raises, raw) ==
  [raised |-> FALSE, rows |-> IF raises THEN <<>> ELSE NormalizeFts(raw)]

\* _row_to_node for each selected id
NodesOf(N, ids) == [i \in DOMAIN ids |-> GetNode(N, ids[i])]

\* db.list_nodes: ORDER BY updated_at DESC LIMIT
ListNodes(N, type_filter, project_filter, limit) ==
  NodesOf(N, Take(OrderBy(NodeIds({n \in N : Visible(n) /\ Passes(n.type, type_filter)
                                                         /\ Passes(n.project, project_filter)}),
                          [id \in NodeIds(N) |-> 0 - GetNode(N, id).updated_at]),
                  limit))

ListCap == 10000

\* db.get_all_embeddings(): the vectors of the nodes that are not archived
GetAllEmbeddings(N, M) ==
  {m.node_id : m \in {e \in M : \E n \in N : n.id = e.node_id /\ Visible(n)}}

\* search_vectors: "top_k = min(limit, len(sims))", then sims[-top_k:] of the
\* partition, which is the whole array when top_k is 0
TopK(limit, n) == IF Min(limit, n) = 0 THEN n ELSE Min(limit, n)

\* "(score + 1.0) / 2.0"
Rescale(s) == Reduce(Quotient(s + 1, 2))

\* a vector signal that takes the whole embedding pool, filters or not
PoolUnfiltered(N, M, type_filter, project_filter) == GetAllEmbeddings(N, M)

\* "candidate_ids = {n.id for n in candidate_nodes}"
CandidateIds(candidate_nodes) == {candidate_nodes[i].id : i \in DOMAIN candidate_nodes}

\* the embedding pool of _search_vector: restricted to list_nodes when a filter is given
Pool(N, M, type_filter, project_filter) ==
  IF ~Falsy(type_filter) \/ ~Falsy(project_filter)
  THEN GetAllEmbeddings(N, M)
         \cap CandidateIds(ListNodes(N, type_filter, project_filter, ListCap))
  ELSE GetAllEmbeddings(N, M)

\* search_vectors: the top_k ids of the pool, the most similar first
SearchVectors(pool, sim, limit) ==
  Take(OrderBy(pool, [id \in DOMAIN sim |-> 0 - sim[id]]), TopK(limit, Cardinality(pool)))

\* "[(nid, (score + 1.0) / 2.0) for nid, score in results]"
Rescaled(top, sim) == [i \in DOMAIN top |-> <<top[i], Rescale(sim[top[i]])>>]

\* _search_vector: (node_id, rescaled similarity), the most similar first
SearchVector(N, M, sim, limit, type_filter, project_filter) ==
  Rescaled(SearchVectors(Pool(N, M, type_filter, project_filter), sim, limit), sim)

\* the ids of a list of (node_id, score) pairs
IdsOf(pairs) == {pairs[i][1] : i \in DOMAIN pairs}

ScoreIn(pairs, id) == pairs[CHOOSE i \in DOMAIN pairs : pairs[i][1] = id][2]

\* a merge that keeps the nodes both signals found and drops the others
CombineBoth(fts_results, vector_results) ==
  LET both == SelectSeq(fts_results, LAMBDA p : p[1] \in IdsOf(vector_results))
  IN [i \in DOMAIN both |->
        [node_id |-> both[i][1], fts |-> both[i][2],
         vector |-> ScoreIn(vector_results, both[i][1])]]

\* "combined": the lexical candidates in their order, then the candidates the vector
\* signal alone found, a signal that did not find the node counting 0.0
Combine(fts_results, vector_results) ==
  LET rest == SelectSeq(vector_results, LAMBDA p : p[1] \notin IdsOf(fts_results))
  IN [i \in DOMAIN fts_results |->
        [node_id |-> fts_results[i][1], fts |-> fts_results[i][2],
         vector |-> IF fts_results[i][1] \in IdsOf(vector_results)
                    THEN ScoreIn(vector_results, fts_results[i][1]) ELSE Zero]]
     \o [i \in DOMAIN rest |-> [node_id |-> rest[i][1], fts |-> Zero, vector |-> rest[i][2]]]

\* final = scores["fts"] * FTS_WEIGHT + scores["vector"] * VECTOR_WEIGHT
Final(scores) == QAdd(QMul(scores.fts, FTS_WEIGHT), QMul(scores.vector, VECTOR_WEIGHT))

\* list.sort(key = score, reverse = True): stable, the higher score first
RECURSIVE SortDesc(_)
SortDesc(list) ==
  IF list = <<>> THEN <<>>
  ELSE LET x == list[Len(list)]
           sorted == SortDesc(SubSeq(list, 1, Len(list) - 1))
           ahead == SelectSeq(sorted, LAMBDA y : ~QLess(y.score, x.score))
           behind == SelectSeq(sorted, LAMBDA y : QLess(y.score, x.score))
       IN ahead \o <<x>> \o behind

\* scored[:limit], results[:limit]
TruncateTo(list, limit) == Take(list, limit)

\* "final = ...; scored.append((node_id, final))"
Weighted(combined) ==
  [i \in DOMAIN combined |-> [node_id |-> combined[i].node_id, score |-> Final(combined[i])]]

\* search from the merge to the cut: the weighted sum of the merged signals, sorted
Scored(fts_results, vector_results, limit) ==
  TruncateTo(SortDesc(Weighted(Combine(fts_results, vector_results))), limit)

\* SearchResult(node, score, "combined") for each fetched id
Results(N, found) ==
  [i \in DOMAIN found |->
     [node |-> GetNode(N, found[i].node_id), score |-> found[i].score,
      match_type |-> "combined"]]

\* "Fetch full nodes": the scored ids that get_node resolves, as SearchResults
Fetch(N, scored) == Results(N, SelectSeq(scored, LAMBDA s : GetNode(N, s.node_id) # NoNode))

\* search(), when nothing changes the store between its stages
Search(N, M, F, q, limit, type_filter, project_filter) ==
  Fetch(N, Scored(SearchFtsResult(q.fts_raises,
                    DbSearchFts(N, F, q.bm25, limit * 2, type_filter, project_filter)).rows,
                  SearchVector(N, M, q.sim, limit * 2, type_filter, project_filter),
                  limit))

\* ------------------------------------------------------------ context_search

BadDate == -2
FullBoostDays == 7
NoBoostDays == 90

\* a decay that starts at day 0 instead of day 7
RecencyBoostFromZero(updated_at, max_boost, t) ==
  IF updated_at \in {NoDate, BadDate} THEN Zero
  ELSE IF t - updated_at <= 0 THEN max_boost
  ELSE IF t - updated_at >= NoBoostDays THEN Zero
  ELSE QMul(max_boost, Quotient(NoBoostDays - (t - updated_at), NoBoostDays))

\* _recency_boost, ages in whole days; a timestamp that does not parse (BadDate) or is
\* missing (NoDate) takes the except branch
RecencyBoost(updated_at, max_boost, t) ==
  IF updated_at \in {NoDate, BadDate} THEN Zero
  ELSE IF t - updated_at <= FullBoostDays THEN max_boost
  ELSE IF t - updated_at >= NoBoostDays THEN Zero
  ELSE QMul(max_boost, Quotient(NoBoostDays - (t - updated_at), NoBoostDays - FullBoostDays))

\* a merge that appends the unscoped results whether seen or not
AppendUnseenAll(results, cross_results) == results \o cross_results

\* "if r.node.id not in seen_ids: results.append(r)"
RECURSIVE AppendUnseen(_, _)
AppendUnseen(results, cross_results) ==
  IF cross_results = <<>> THEN results
  ELSE LET r == Head(cross_results)
       IN IF r.node.id \in {results[i].node.id : i \in DOMAIN results}
          THEN AppendUnseen(results, Tail(cross_results))
          ELSE AppendUnseen(Append(results, r), Tail(cross_results))

\* "r.score += _recency_boost(r.node.updated_at, recency_boost)"
Boosted(results, recency_boost, t) ==
  [i \in DOMAIN results |->
     [results[i] EXCEPT !.score = QAdd(@, RecencyBoost(results[i].node.updated_at,
                                                      recency_boost, t))]]

\* context_search after its searches: the merge, the recency bonus, the re-sort, the cut
ContextSearch(primary, cross_results, limit, recency_boost, t) ==
  TruncateTo(SortDesc(Boosted(AppendUnseen(primary, cross_results), recency_boost, t)), limit)

\* ------------------------------------------------------------ retrieval calls

NoQuery == [bm25 |-> <<>>, sim |-> <<>>, fts_raises |-> FALSE]

Args(limit, type_filter, project_filter, recency_boost) ==
  [limit |-> limit, type_filter |-> type_filter, project_filter |-> project_filter,
   recency_boost |-> recency_boost]

\* the last retrieval call: what it was given, the locals of search between its two
\* stages, and what it returned; q is what the index engine and the embedding model
\* make of the query text the calls are given
IdleRank ==
  [op |-> "idle", pc |-> "idle", status |-> "ok", args |-> Args(0, NULL, NULL, Zero),
   q |-> NoQuery, fts |-> <<>>, vector |-> <<>>, scored |-> <<>>, primary |-> <<>>,
   cross |-> <<>>, results |-> <<>>, stamps |-> <<>>, bonus |-> <<>>]

\* search(), first stage: the candidates are ranked
SearchRank(limit, type_filter, project_filter) ==
  /\ rank.pc = "idle"
  /\ \E lexical \in {SearchFtsResult(rank.q.fts_raises,
                       DbSearchFts(nodes, nodes_fts, rank.q.bm25, limit * 2,
                                   type_filter, project_filter))} :
     \E vector_results \in {SearchVector(nodes, embeddings, rank.q.sim, limit * 2,
                                         type_filter, project_filter)} :
       rank' = [IdleRank EXCEPT !.op = "search",
                                !.pc = IF lexical.raised THEN "done" ELSE "ranked",
                                !.status = IF lexical.raised THEN "raise" ELSE "ok",
                                !.args = Args(limit, type_filter, project_filter, Zero),
                                !.q = rank.q, !.fts = lexical.rows,
                                !.vector = vector_results,
                                !.scored = IF lexical.raised THEN <<>>
                                           ELSE Scored(lexical.rows, vector_results, limit)]
  /\ UNCHANGED <<storeVars, now, budget, nextNodeId, nextEdgeId, files, pass, ret, walk, search, callers, hook, settings>>

\* search(), second stage: the full nodes are fetched
SearchFetch ==
  /\ rank.op = "search"
  /\ rank.pc = "ranked"
  /\ rank' = [rank EXCEPT !.pc = "done", !.results = Fetch(nodes, rank.scored)]
  /\ UNCHANGED <<storeVars, now, budget, nextNodeId, nextEdgeId, files, pass, ret, walk, search, callers, hook, settings>>

\* another connection on the database file deletes a ranked node, with its vector and
\* its edges, before search has fetched it; trigger nodes_ad clears its index row
DeleteNode(id) ==
  /\ rank.pc = "ranked"
  /\ budget > 0
  /\ id \in {rank.scored[i].node_id : i \in DOMAIN rank.scored}
  /\ nodes' = {n \in nodes : n.id # id}
  /\ embeddings' = {m \in embeddings : m.node_id # id}
  /\ edges' = {e \in edges : e.source_id # id /\ e.target_id # id}
  /\ nodes_fts' = NodesAd(nodes_fts, GetNode(nodes, id))
  /\ budget' = budget - 1
  /\ UNCHANGED <<sync_state, now, nextNodeId, nextEdgeId, files, pass, ret, walk, search, rank, callers, hook, settings>>

\* context_search: the scoped search, the unscoped one when a project is given, then
\* the merge, the recency bonus, the re-sort and the cut
ContextSearchCall(project, limit, recency_boost) ==
  /\ rank.pc = "idle"
  /\ \E primary \in {Search(nodes, embeddings, nodes_fts, rank.q, limit, NULL, project)} :
     \E cross_results \in {IF ~Falsy(project)
                           THEN Search(nodes, embeddings, nodes_fts, rank.q, limit \div 2,
                                       NULL, NULL)
                           ELSE <<>>} :
       rank' = [IdleRank EXCEPT !.op = "context_search", !.pc = "done",
                                !.args = Args(limit, NULL, project, recency_boost),
                                !.q = rank.q, !.primary = primary, !.cross = cross_results,
                                !.results = ContextSearch(primary, cross_results, limit,
                                                          recency_boost, now)]
  /\ UNCHANGED <<storeVars, now, budget, nextNodeId, nextEdgeId, files, pass, ret, walk, search, callers, hook, settings>>

\* list_nodes
ListNodesCall(type_filter, project_filter, limit) ==
  /\ rank.pc = "idle"
  /\ \E listed \in {ListNodes(nodes, type_filter, project_filter, limit)} :
       rank' = [IdleRank EXCEPT !.op = "list_nodes", !.pc = "done", !.q = rank.q,
                                !.args = Args(limit, type_filter, project_filter, Zero),
                                !.results = [i \in DOMAIN listed |->
                                               [node |-> listed[i], score |-> Zero,
                                                match_type |-> "listed"]]]
  /\ UNCHANGED <<storeVars, now, budget, nextNodeId, nextEdgeId, files, pass, ret, walk, search, callers, hook, settings>>

\* _recency_boost applied to two timestamps with the same max_boost
RecencyCall(stamps, max_boost) ==
  /\ rank.pc \in {"idle", "done"}
  /\ rank' = [IdleRank EXCEPT !.op = "recency", !.pc = "done",
                              !.args = Args(0, NULL, NULL, max_boost),
                              !.stamps = stamps,
                              !.bonus = [i \in DOMAIN stamps |->
                                           RecencyBoost(stamps[i], max_boost, now)]]
  /\ UNCHANGED <<storeVars, now, budget, nextNodeId, nextEdgeId, files, pass, ret, walk, search, callers, hook, settings>>

\* the store the retrieval calls run on: MaxRankNodes nodes of two types in two
\* projects, of different ages, the odd ones embedded, and one archived node that is
\* embedded, indexed and linked
RankNow == 200
ArchivedId == MaxRankNodes + 1

RankAge(i) == CASE i = 1 -> 0 [] i = 2 -> 48 [] i = 3 -> 120 [] OTHER -> 8

RankNode(i) ==
  Node(i, IF i % 2 = 1 THEN "note" ELSE "decision", "t1", "b1", "manual", NULL, NULL,
       IF i <= 2 THEN "p1" ELSE "p2", 1, RankNow - RankAge(i), FALSE)

ArchivedNode == Node(ArchivedId, "note", "t1", "b1", "manual", NULL, NULL, "p1", 1, RankNow, TRUE)

RankNodes == {RankNode(i) : i \in 1..MaxRankNodes} \cup {ArchivedNode}

RankEmbedded == {i \in 1..MaxRankNodes : i % 2 = 1} \cup {ArchivedId}

\* the queries tried: any score or no match for each node and any similarity for each
\* vector, the archived node always the best match of both signals; a query the index
\* engine rejects has no scores
Queries ==
  {[bm25 |-> b, sim |-> s, fts_raises |-> FALSE] :
     b \in {f \in [NodeIds(RankNodes) -> Bm25Values] : f[ArchivedId] = 0 - 1},
     s \in {g \in [RankEmbedded -> Sims] : g[ArchivedId] = 1}}
   \cup {[bm25 |-> [id \in NodeIds(RankNodes) |-> NoMatch], sim |-> s, fts_raises |-> TRUE] :
           s \in {g \in [RankEmbedded -> Sims] : g[ArchivedId] = 1}}

Limits == 1..MaxLimit

\* (type_filter, project_filter) of a search call
Filters == {<<NULL, NULL>>, <<"note", NULL>>, <<NULL, "p1">>, <<EMPTY, EMPTY>>}

Projects == {NULL, "p1"}

Boosts == {Zero, Quotient(1, 10), Quotient(1, 2)}

\* updated_at values: ages of -1 (a clock ahead), 0, 6, 7, 8, 48, 89, 90, 91 and 120
\* days, a string that is no date, and no value
Stamps ==
  {RankNow - age : age \in {0 - 1, 0, 6, 7, 8, 48, 89, 90, 91, 120}} \cup {NoDate, BadDate}

\* ------------------------------------------------------------ specification

IdlePass ==
  [pc |-> "idle", full |-> FALSE, scopes |-> <<>>, scope |-> NULL, cutoff |-> NoDate,
   phase |-> "items", queue |-> <<>>, listed |-> <<>>, handled |-> <<>>,
   result |-> SyncResult(NULL), results |-> <<>>, raised |-> 0]

\* ------------------------------------------------------------ concurrent upsert_node calls

\* two callers of upsert_node on one database file, each on a connection of its own
Callers == {1, 2}

\* where a caller is in upsert_node, the node it was given and what its lookup returned
IdleCaller == [pc |-> "idle", node |-> NoNode, existing |-> NoNode]

IdleCallers == [c \in Callers |-> IdleCaller]

\* upsert_node, first statement: the SELECT of find_node_by_source
UpsertLookup(c, title, body, source, source_id) ==
  /\ pass.pc = "idle"
  /\ callers[c].pc # "looked"
  /\ budget > 0
  /\ nextNodeId <= MaxNodes
  /\ \E node \in {Node(nextNodeId, "note", title, body, source, source_id, NULL, NULL,
                       now, now, FALSE)} :
       \E existing \in ExistingFor(nodes, node) :
         callers' = [callers EXCEPT ![c] = [pc |-> "looked", node |-> node,
                                            existing |-> existing]]
  /\ nextNodeId' = nextNodeId + 1
  /\ now' = now + 1
  /\ budget' = budget - 1
  /\ UNCHANGED <<storeVars, nextEdgeId, files, pass, ret, walk, search, rank, hook, settings>>

\* upsert_node, second statement: the UPDATE of the row found, or insert_node
UpsertWrite(c) ==
  /\ callers[c].pc = "looked"
  /\ \E up \in {UpsertNode(nodes, callers[c].node, callers[c].existing)} :
       /\ nodes' = up.nodes
       /\ nodes_fts' = UpsertTriggers(nodes_fts, up, GetNode(nodes, callers[c].existing.id))
       /\ ret' = Ret("upsert_node", "ok", up.node, up.created, NoEdge, c, "", NoVector)
  /\ callers' = [callers EXCEPT ![c].pc = "done"]
  /\ UNCHANGED <<edges, embeddings, sync_state, now, budget, nextNodeId, nextEdgeId, files,
                 pass, walk, search, rank, hook, settings>>

\* ------------------------------------------------------------ kg-capture-fix.py

FAILURE_WINDOW_SECONDS == 30 * 60

\* suites of TEST_BUILD_PATTERNS; NULL: the command matches no pattern
Suites == {"pytest", "make"}

\* tool outputs, by the phrases the heuristics look for
Outputs == {{}, {"FAILED"}, {"3 passed"}, {"3 passed", "FAILED"}, {"Build succeeded", "error:"}}

\* _is_failure
IsFailure(tool_output) == tool_output \cap {"FAILED", "error:", "exit code 1"} # {}

\* _is_success: "N passed" counts only when the output is no failure,
\* "Build succeeded" counts whatever else the output holds
IsSuccess(tool_output) ==
  \/ \E phrase \in tool_output : phrase = "3 passed" /\ ~IsFailure(tool_output)
  \/ "Build succeeded" \in tool_output

\* _prune_old_failures: the entries younger than the window, at time t
PruneOldFailures(failures, t) ==
  [suite \in {x \in DOMAIN failures : t - failures[x] < FAILURE_WINDOW_SECONDS} |-> failures[suite]]

\* a hook that leaves the state file as it is when it fires
KeepRecord(failures, suite) == failures

\* del state["failures"][suite]
DelFailure(failures, suite) == [x \in DOMAIN failures \ {suite} |-> failures[x]]

\* state["failures"][suite] = {"timestamp": time.time(), ...}
RecordFailure(failures, suite, t) ==
  [x \in DOMAIN failures \cup {suite} |-> IF x = suite THEN t ELSE failures[x]]

\* what the last run of the hook was given and its exit code
HookCall(tool_name, suite, tool_output, t, code) ==
  [tool_name |-> tool_name, suite |-> suite, tool_output |-> tool_output, t |-> t, code |-> code]

\* the state file (suite -> timestamp of its recorded failure; no file: no entry),
\* the clock, the number of runs and the last run
IdleHook ==
  [failures |-> <<>>, clock |-> FAILURE_WINDOW_SECONDS, runs |-> 0,
   last |-> HookCall("", NULL, {}, 0, 0)]

\* main(): one run of the hook, dt seconds after the last one; `later` seconds pass
\* between the time.time() of the pruning and the one of the record or the check
HookMain(tool_name, suite, tool_output, dt, later) ==
  /\ settings.hook_files
  /\ hook.runs < MaxHookRuns
  /\ \E pruned \in {PruneOldFailures(hook.failures, hook.clock + dt)}, t \in {hook.clock + dt + later} :
       IF tool_name # "Bash" \/ suite = NULL
       THEN hook' = [hook EXCEPT !.clock = t, !.runs = @ + 1,
                                 !.last = HookCall(tool_name, suite, tool_output, t, 0)]
       ELSE IF IsFailure(tool_output)
       THEN hook' = [failures |-> RecordFailure(pruned, suite, t), clock |-> t,
                     runs |-> hook.runs + 1,
                     last |-> HookCall(tool_name, suite, tool_output, t, 0)]
       ELSE IF /\ IsSuccess(tool_output)
               /\ suite \in DOMAIN pruned
               /\ t - pruned[suite] < FAILURE_WINDOW_SECONDS
       THEN hook' = [failures |-> DelFailure(pruned, suite), clock |-> t,
                     runs |-> hook.runs + 1,
                     last |-> HookCall(tool_name, suite, tool_output, t, 2)]
       ELSE hook' = [failures |-> pruned, clock |-> t, runs |-> hook.runs + 1,
                     last |-> HookCall(tool_name, suite, tool_output, t, 0)]
  /\ UNCHANGED <<storeVars, now, budget, nextNodeId, nextEdgeId, files, pass, ret, walk, search,
                 rank, callers, settings>>

\* ------------------------------------------------------------ install.py

\* an entry of the PostToolUse list: a matcher and the commands of its hooks
HookEntry(matcher, commands) == [matcher |-> matcher, hooks |-> commands]

CommitCommand == "python \"~/.claude/hooks/kg-capture-commit.py\""
FixCommand == "python \"~/.claude/hooks/kg-capture-fix.py\""

KG_HOOK_ENTRY == HookEntry("Bash", <<CommitCommand, FixCommand>>)

\* entries a settings.json can hold before the first install: a hook of the user's, and
\* entries written by hand that run the commit hook next to a command of the user's
UserEntries ==
  {HookEntry("Edit", <<"fmt">>),
   HookEntry("Bash", <<"python hooks/kg-capture-commit.py", "lint">>),
   HookEntry("Write", <<"python hooks/kg-capture-commit.py">>)}

\* KG_HOOK_MARKER in json.dumps(entry): the texts of the entries that hold the marker
MarkerTexts == {CommitCommand, "python hooks/kg-capture-commit.py"}

MentionsMarker(entry) ==
  entry.matcher \in MarkerTexts \/ \E i \in DOMAIN entry.hooks : entry.hooks[i] \in MarkerTexts

\* PostToolUse lists of at most MaxEntries entries
RECURSIVE EntryLists(_)
EntryLists(n) ==
  IF n = 0 THEN {<<>>}
  ELSE EntryLists(n - 1) \cup {Append(l, e) : l \in EntryLists(n - 1), e \in UserEntries}

\* a registration that appends without looking for the marker
RegisterHooksAlways(file, post_tool) ==
  IF file = "malformed" THEN [file |-> file, post_tool |-> post_tool]
  ELSE [file |-> "ok", post_tool |-> Append(post_tool, KG_HOOK_ENTRY)]

\* _register_hooks: settings.json (missing, malformed or ok) and its PostToolUse list
RegisterHooks(file, post_tool) ==
  IF file = "malformed" THEN [file |-> file, post_tool |-> post_tool]
  ELSE IF \E i \in DOMAIN post_tool : MentionsMarker(post_tool[i])
  THEN [file |-> file, post_tool |-> post_tool]
  ELSE [file |-> "ok", post_tool |-> Append(post_tool, KG_HOOK_ENTRY)]

\* uninstall, step 3: the entries that hold the marker leave the list
DeregisterHooks(file, post_tool) ==
  IF file # "ok" THEN [file |-> file, post_tool |-> post_tool]
  ELSE [file |-> file, post_tool |-> SelectSeq(post_tool, LAMBDA entry : ~MentionsMarker(entry))]

\* ~/.claude: settings.json and its PostToolUse list, the copied hook files and skill,
\* the list before the first run and the runs so far (kept for the properties)
IdleSettings ==
  [file |-> "missing", post_tool |-> <<>>, before |-> <<>>, hook_files |-> FALSE,
   skill |-> FALSE, log |-> <<>>]

\* install()
Install ==
  /\ Len(settings.log) < MaxInstallRuns
  /\ \E reg \in {RegisterHooks(settings.file, settings.post_tool)} :
       settings' = [settings EXCEPT !.file = reg.file, !.post_tool = reg.post_tool,
                                    !.hook_files = TRUE, !.skill = TRUE,
                                    !.log = Append(@, "install")]
  /\ UNCHANGED <<storeVars, now, budget, nextNodeId, nextEdgeId, files, pass, ret, walk, search,
                 rank, callers, hook>>

\* uninstall(): the hook files, the state file of the fix hook and the skill are
\* removed, then the hooks are deregistered
Uninstall ==
  /\ Len(settings.log) < MaxInstallRuns
  /\ \E reg \in {DeregisterHooks(settings.file, settings.post_tool)} :
       settings' = [settings EXCEPT !.file = reg.file, !.post_tool = reg.post_tool,
                                    !.hook_files = FALSE, !.skill = FALSE,
                                    !.log = Append(@, "uninstall")]
  /\ hook' = [hook EXCEPT !.failures = <<>>]
  /\ UNCHANGED <<storeVars, now, budget, nextNodeId, nextEdgeId, files, pass, ret, walk, search,
                 rank, callers>>


InitTree == [f \in {"ns1/A.md"} |-> File(Doc(ABSENT, "t1", "B", 0, 1, "b1", "", NULL, TRUE), 1)]

InitSyncTree ==
  [f \in InitSyncFiles |->
     CASE f = "ns1/A.md" -> File(Doc(ABSENT, "t1", "B", 0, 1, "b1", "", NULL, TRUE), 1)
       [] f = "ns1/B.md" -> File(Doc(ABSENT, ABSENT, NULL, NoDate, NoDate, "b1", "a1", NULL, TRUE), 0)
       [] f = "ns1/B/x.md" -> File(Doc(ABSENT, ABSENT, NULL, NoDate, NoDate, "b1", "", NULL, TRUE), 1)]

Init ==
  /\ nodes = {}
  /\ edges = {}
  /\ embeddings = {}
  /\ sync_state = {}
  /\ now = StartTime
  /\ budget = MaxOps
  /\ nextNodeId = 1
  /\ nextEdgeId = 1
  /\ files = InitTree
  /\ pass = IdlePass
  /\ ret = Ret("init", "ok", NoNode, FALSE, NoEdge, 0, "", NoVector)
  /\ walk = IdleWalk
  /\ search = IdleSearch
  /\ nodes_fts = FtsOf(nodes)
  /\ rank = IdleRank
  /\ callers = IdleCallers
  /\ hook = IdleHook
  /\ settings = IdleSettings

Next ==
  \/ \E tx \in AddTexts, src \in AddSources, specs \in EdgeSpecLists, embed_raises \in BOOLEAN :
       /\ (embed_raises => specs = <<>>)
       /\ SkeinAdd("note", tx[1], tx[2], src[1], src[2], NULL, specs, embed_raises)
  \/ \E s \in KnownIds, t \in KnownIds, k \in ConnectKinds :
       /\ (GhostId \in {s, t} => k = <<"relates_to", 1>>)
       /\ SkeinConnect(s, t, k[1], k[2])
  \/ \E tx \in UpsertTexts, src \in UpsertSources :
       DbUpsertNode("note", tx[1], tx[2], src[1], src[2], NULL)
  \/ \E s \in NodeIds(nodes), t \in KnownIds, k \in UpsertKinds :
       DbUpsertEdge(s, t, k[1], k[2])
  \/ \E n \in KnownIds, vm \in StoreInputs :
       /\ (n = GhostId => vm[2] = ModelName)
       /\ DbStoreEmbedding(n, vm[1], vm[2])
  \/ \E full \in BOOLEAN : SyncBegin(full)
  \/ SyncScopeStart
  \/ SyncSkip
  \/ \E embed_raises \in BOOLEAN : SyncDoc(embed_raises)
  \/ SyncArtifacts
  \/ SyncScopeEnd
  \/ SyncReturn

Spec == Init /\ [][Next]_vars

\* upsert_node called by two processes at once
InitConcurrent == Init

NextConcurrent ==
  \/ \E c \in Callers, tx \in UpsertTexts \cup AddTexts, src \in UpsertSources :
       UpsertLookup(c, tx[1], tx[2], src[1], src[2])
  \/ \E c \in Callers : UpsertWrite(c)

ConcurrentSpec == InitConcurrent /\ [][NextConcurrent]_vars

\* the store left alone: nothing stored and no call in progress
InitIdle ==
  /\ nodes = {}
  /\ edges = {}
  /\ embeddings = {}
  /\ sync_state = {}
  /\ nodes_fts = EmptyBag
  /\ now = StartTime
  /\ budget = 0
  /\ nextNodeId = 1
  /\ nextEdgeId = 1
  /\ files = InitTree
  /\ pass = IdlePass
  /\ ret = Ret("init", "ok", NoNode, FALSE, NoEdge, 0, "", NoVector)
  /\ walk = IdleWalk
  /\ search = IdleSearch
  /\ rank = IdleRank
  /\ callers = IdleCallers
  /\ hook = IdleHook

\* the installer, on the settings files it can meet
InitInstall ==
  /\ InitIdle
  /\ \E file \in {"missing", "malformed", "ok"}, before \in EntryLists(MaxEntries) :
       /\ file # "ok" => before = <<>>
       /\ settings = [IdleSettings EXCEPT !.file = file, !.post_tool = before,
                                          !.before = before]

NextInstall ==
  \/ Install
  \/ Uninstall

InstallSpec == InitInstall /\ [][NextInstall]_vars

\* the runs of the fix-capture hook, once install has run in a home directory that
\* had no settings.json
InitHook ==
  /\ InitIdle
  /\ settings = [IdleSettings EXCEPT !.file = "ok", !.post_tool = <<KG_HOOK_ENTRY>>,
                                     !.hook_files = TRUE, !.skill = TRUE,
                                     !.log = <<"install">>]

NextHook ==
  \/ Install
  \/ Uninstall
  \/ \E tool_name \in {"Bash", "Edit"}, suite \in Suites \cup {NULL}, tool_output \in Outputs,
        dt \in {0, FAILURE_WINDOW_SECONDS - 1, FAILURE_WINDOW_SECONDS}, later \in {0, 1} :
       /\ (tool_name = "Edit" \/ suite = NULL) => (tool_output = {} /\ dt = 0 /\ later = 0)
       /\ tool_name = "Edit" => suite = NULL
       /\ HookMain(tool_name, suite, tool_output, dt, later)

HookSpec == InitHook /\ [][NextHook]_vars

\* the connector alone, on the whole tree, with documents being edited meanwhile
InitSync ==
  /\ nodes = {}
  /\ edges = {}
  /\ embeddings = {}
  /\ sync_state = {}
  /\ now = StartTime
  /\ budget = MaxSyncOps
  /\ nextNodeId = 1
  /\ nextEdgeId = 1
  /\ files = InitSyncTree
  /\ pass = IdlePass
  /\ ret = Ret("init", "ok", NoNode, FALSE, NoEdge, 0, "", NoVector)
  /\ walk = IdleWalk
  /\ search = IdleSearch
  /\ nodes_fts = FtsOf(nodes)
  /\ rank = IdleRank
  /\ callers = IdleCallers
  /\ hook = IdleHook
  /\ settings = IdleSettings

NextSync ==
  \/ \E full \in BOOLEAN : SyncBegin(full)
  \/ SyncScopeStart
  \/ SyncSkip
  \/ \E embed_raises \in BOOLEAN : SyncDoc(embed_raises)
  \/ SyncArtifacts
  \/ SyncFatal
  \/ SyncScopeEnd
  \/ SyncReturn
  \/ \E f \in FilePaths : \E doc \in Variants(f) : EditFile(f, doc)
  \/ \E f \in FilePaths : RemoveFile(f)

SyncSpec == InitSync /\ [][NextSync]_vars

\* one skein_add call on the empty store, followed by a connector run
NextEmbed ==
  \/ NextSync
  \/ /\ nodes = {}
     /\ \E embed_raises \in BOOLEAN :
          SkeinAdd("note", "t1", "b1", "manual", NULL, NULL, <<>>, embed_raises)

EmbedSpec == InitSync /\ [][NextEmbed]_vars

\* skein_get on a stored graph
InitWalk ==
  /\ nodes = {WalkNode(i) : i \in 1..MaxWalkNodes}
  /\ edges \in SUBSET WalkEdges
  /\ embeddings = {}
  /\ sync_state = {}
  /\ now = StartTime
  /\ budget = 0
  /\ nextNodeId = MaxWalkNodes + 1
  /\ nextEdgeId = MaxWalkNodes + 4
  /\ files = InitTree
  /\ pass = IdlePass
  /\ ret = Ret("init", "ok", NoNode, FALSE, NoEdge, 0, "", NoVector)
  /\ walk = IdleWalk
  /\ search = IdleSearch
  /\ nodes_fts = FtsOf(nodes)
  /\ rank = IdleRank
  /\ callers = IdleCallers
  /\ hook = IdleHook
  /\ settings = IdleSettings

NextWalk ==
  \/ \E id \in KnownIds, depth \in 0..MaxDepth : SkeinGet(id, depth)
  \/ NeighborsRound
  \/ NeighborsReturn

WalkSpec == InitWalk /\ [][NextWalk]_vars

\* a call that was started is run to its end
LiveWalkSpec == WalkSpec /\ WF_vars(NeighborsRound) /\ WF_vars(NeighborsReturn)

\* lexical search over stored nodes
InitSearch ==
  /\ nodes = {WalkNode(i) : i \in 1..MaxCandidates}
  /\ edges = {}
  /\ embeddings = {}
  /\ sync_state = {}
  /\ now = StartTime
  /\ budget = 0
  /\ nextNodeId = MaxCandidates + 1
  /\ nextEdgeId = 1
  /\ files = InitTree
  /\ pass = IdlePass
  /\ ret = Ret("init", "ok", NoNode, FALSE, NoEdge, 0, "", NoVector)
  /\ walk = IdleWalk
  /\ search = IdleSearch
  /\ nodes_fts = FtsOf(nodes)
  /\ rank = IdleRank
  /\ callers = IdleCallers
  /\ hook = IdleHook
  /\ settings = IdleSettings

NextSearch ==
  \E raw \in RawLists, raises \in BOOLEAN :
    /\ (raises => raw = <<>>)
    /\ SearchFts(raw, raises)

SearchSpec == InitSearch /\ [][NextSearch]_vars

\* the archived node is the target of an edge from a live node
RankEdges == {Edge(1, 1, ArchivedId, "relates_to", DefaultWeight, 1)}

\* one call of search, context_search or list_nodes on a stored graph
InitRank ==
  /\ nodes = RankNodes
  /\ edges = RankEdges
  /\ embeddings = {[node_id |-> id, vector |-> Embed(EmbedText("t1", "b1")),
                    model |-> ModelName, created_at |-> 1] : id \in RankEmbedded}
  /\ sync_state = {}
  /\ now = RankNow
  /\ budget = MaxDeletes
  /\ nextNodeId = ArchivedId + 1
  /\ nextEdgeId = 2
  /\ files = InitTree
  /\ pass = IdlePass
  /\ ret = Ret("init", "ok", NoNode, FALSE, NoEdge, 0, "", NoVector)
  /\ walk = IdleWalk
  /\ search = IdleSearch
  /\ nodes_fts = FtsOf(nodes)
  /\ \E q \in Queries : rank = [IdleRank EXCEPT !.q = q]
  /\ callers = IdleCallers
  /\ hook = IdleHook
  /\ settings = IdleSettings

NextRank ==
  \/ \E limit \in Limits, f \in Filters : SearchRank(limit, f[1], f[2])
  \/ SearchFetch
  \/ \E id \in NodeIds(nodes) : DeleteNode(id)
  \/ \E project \in Projects, limit \in Limits :
       ContextSearchCall(project, limit, Quotient(1, 10))
  \/ \E f \in Filters, limit \in Limits : ListNodesCall(f[1], f[2], limit)

RankSpec == InitRank /\ [][NextRank]_vars

\* the recency bonus alone
NextBoost ==
  \E u1 \in Stamps, u2 \in Stamps, max_boost \in Boosts : RecencyCall(<<u1, u2>>, max_boost)

InitBoost ==
  /\ nodes = RankNodes
  /\ edges = {}
  /\ embeddings = {}
  /\ sync_state = {}
  /\ now = RankNow
  /\ budget = 0
  /\ nextNodeId = ArchivedId + 1
  /\ nextEdgeId = 1
  /\ files = InitTree
  /\ pass = IdlePass
  /\ ret = Ret("init", "ok", NoNode, FALSE, NoEdge, 0, "", NoVector)
  /\ walk = IdleWalk
  /\ search = IdleSearch
  /\ nodes_fts = FtsOf(nodes)
  /\ rank = IdleRank
  /\ callers = IdleCallers
  /\ hook = IdleHook
  /\ settings = IdleSettings

BoostSpec == InitBoost /\ [][NextBoost]_vars

\* ------------------------------------------------------------ properties

FkFailed == "IntegrityError: FOREIGN KEY constraint failed"

KeyRows(N, source, source_id) == {n \in N : n.source = source /\ n.source_id = source_id}

\* C1: for every (source, source_id) whose source_id is set, at most one node row
\* exists, whatever sequence of skein_add, upsert_node and sync steps led here.
DedupInvariant ==
  \A n1 \in nodes, n2 \in nodes :
    (~Falsy(n1.source_id) /\ n1.source = n2.source /\ n1.source_id = n2.source_id) => n1 = n2

\* a step of the connector that upserted the node of the document at the head of the queue
IngestStep ==
  /\ pass.pc = "docs"
  /\ pass.queue # <<>>
  /\ pass'.queue = Tail(pass.queue)
  /\ ret'.op = "sync_doc"
  /\ ret'.node # NoNode

\* C2: ingesting a document leaves exactly one node for its key; the ingestion that
\* finds no node for the key counts in nodes_created only, a later ingestion of the
\* same key counts in nodes_updated only and keeps the node's id and created_at.
IngestIdempotent ==
  [][IngestStep =>
       LET key == ret'.node.source_id
           rowsBefore == KeyRows(nodes, "wcp", key)
           rowsAfter == KeyRows(nodes', "wcp", key)
       IN ~Falsy(key) =>
            /\ Cardinality(rowsAfter) = 1
            /\ rowsBefore = {} =>
                 /\ pass'.result.nodes_created = pass.result.nodes_created + 1
                 /\ pass'.result.nodes_updated = pass.result.nodes_updated
            /\ rowsBefore # {} =>
                 /\ pass'.result.nodes_updated = pass.result.nodes_updated + 1
                 /\ pass'.result.nodes_created = pass.result.nodes_created
                 /\ \A b \in rowsBefore : \E a \in rowsAfter :
                      a.id = b.id /\ a.created_at = b.created_at]_vars

\* the unedited ns1/B.md, the only document with key B, has been ingested a second time
ReingestedUnchanged ==
  /\ ret.op = "sync_doc"
  /\ ret.status = "ok"
  /\ ret.msg = "ns1/B.md"
  /\ ~ret.created
  /\ Edited = {}
  /\ Cardinality(KeyRows(nodes, "wcp", "B")) = 1

ManualNeverDeduplicated ==
  [][(/\ ret'.op \in {"upsert_node", "skein_add"}
      /\ pass.pc = "idle"
      /\ now' # now
      /\ Falsy(ret'.node.source_id)) =>
       /\ ret'.created
       /\ ret'.node.id \notin NodeIds(nodes)
       /\ ret'.node \in nodes'
       /\ Cardinality(nodes') = Cardinality(nodes) + 1]_vars

\* upsert_node was given an empty source_id that a stored node already carries
ManualUpsertedTwice ==
  /\ ret.op = "upsert_node"
  /\ Falsy(ret.node.source_id)
  /\ \E n \in nodes : /\ n.id # ret.node.id
                      /\ n.source = ret.node.source
                      /\ n.source_id = ret.node.source_id

EdgeTripleUnique ==
  \A e \in edges, f \in edges :
    (e.source_id = f.source_id /\ e.target_id = f.target_id /\ e.type = f.type) => e = f

\* C5: at most one edge row per (source_id, target_id, type) in every state, and a
\* stored row is never overwritten: offering its triple again keeps the first row.
EdgeUniqueFirstKept ==
  /\ []EdgeTripleUnique
  /\ [][\A e \in edges : e \in edges']_vars

\* upsert_edge was offered a stored triple under a new id and another weight
DuplicateEdgeOffered ==
  /\ ret.op = "upsert_edge"
  /\ ret.status = "ok"
  /\ ret.edge \notin edges
  /\ \E e \in edges : /\ e.source_id = ret.edge.source_id
                      /\ e.target_id = ret.edge.target_id
                      /\ e.type = ret.edge.type
                      /\ e.weight # ret.edge.weight
                      /\ e.created_at < ret.edge.created_at

\* C6: skein_connect (insert_edge) given a triple that is already stored returns
\* normally instead of raising.
DuplicateEdgeIsNoOp ==
  (/\ ret.op = "skein_connect"
   /\ \E e \in edges : /\ e.id # ret.edge.id
                       /\ e.source_id = ret.edge.source_id
                       /\ e.target_id = ret.edge.target_id
                       /\ e.type = ret.edge.type)
    => ret.status # "raise"

\* C7: both endpoints of every stored edge are ids of stored nodes.
ReferentialIntegrity ==
  \A e \in edges : e.source_id \in NodeIds(nodes) /\ e.target_id \in NodeIds(nodes)

\* skein_add stored one edge and its next edge, to a node that does not exist, was refused
DanglingEdgeRefused ==
  /\ ret.op = "skein_add"
  /\ ret.msg = FkFailed
  /\ ret.count = 1
  /\ edges # {}

\* C8: skein_connect with a missing source or target returns an error that names the
\* missing node (the source first), does not raise, and adds no edge row.
ConnectMissingEndpoint ==
  [][(/\ ret'.op = "skein_connect"
      /\ pass.pc = "idle"
      /\ ret' # ret
      /\ \/ ret'.edge.source_id \notin NodeIds(nodes)
         \/ ret'.edge.target_id \notin NodeIds(nodes)) =>
       /\ ret'.status = "error"
       /\ edges' = edges
       /\ nodes' = nodes
       /\ IF ret'.edge.source_id \notin NodeIds(nodes)
          THEN ret'.msg = "Source node not found" /\ ret'.count = ret'.edge.source_id
          ELSE ret'.msg = "Target node not found" /\ ret'.count = ret'.edge.target_id]_vars

\* skein_connect from a stored node to a node that does not exist
ConnectToMissingTarget ==
  /\ ret.op = "skein_connect"
  /\ ret.status = "error"
  /\ ret.edge.source_id \in NodeIds(nodes)
  /\ ret.edge.target_id \notin NodeIds(nodes)

\* C9: skein_add given an edge whose target does not exist does not raise.
AddMissingTargetNoRaise ==
  ~(ret.op = "skein_add" /\ ret.status = "raise" /\ ret.msg = FkFailed)

OneEmbeddingPerNode ==
  \A m1 \in embeddings, m2 \in embeddings : m1.node_id = m2.node_id => m1 = m2

\* a call that stored the vector ret'.vector under model `model` for node `id`
StoredFor(id, model) ==
  /\ Cardinality({m \in embeddings' : m.node_id = id}) = 1
  /\ \E m \in embeddings' : m.node_id = id /\ m.vector = ret'.vector /\ m.model = model
  /\ \A m \in embeddings : m.node_id # id => m \in embeddings'

\* C10: at most one embedding row per node, and after a store_embedding (direct, or
\* inside skein_add) the node's row holds the vector and model of that call.
EmbeddingReplaced ==
  /\ []OneEmbeddingPerNode
  /\ [][/\ (ret'.op = "store_embedding" /\ ret'.status = "ok" /\ now' # now)
           => StoredFor(ret'.count, ret'.msg)
        /\ (ret'.op = "skein_add" /\ ret'.vector # NoVector /\ now' # now)
           => StoredFor(ret'.node.id, ModelName)]_vars

\* a node that skein_add embedded now carries the vector of a later store_embedding
ReEmbedded ==
  /\ ret.op = "store_embedding"
  /\ ret.status = "ok"
  /\ \E n \in nodes, m \in embeddings :
       /\ n.id = ret.count
       /\ n.title = "t1"
       /\ m.node_id = n.id
       /\ m.vector = ret.vector
       /\ m.vector # Embed(EmbedText(n.title, n.body))
       /\ m.created_at > n.created_at

\* ------------------------------------------------------------ sync cursor

ScopeNames == {Scopes[i] : i \in DOMAIN Scopes}

\* the stored last_sync of a scope, NoDate while none is stored
LastSync(S, ns) ==
  IF GetSyncState(S, "wcp", ns) = {} THEN NoDate
  ELSE (CHOOSE st \in GetSyncState(S, "wcp", ns) : TRUE).last_sync

\* the step on which the pass is through with its current scope
ScopeCompletes ==
  /\ pass.pc = "docs"
  /\ pass.phase = "artifacts"
  /\ pass.queue = <<>>
  /\ pass'.pc = "scopes"
  /\ pass'.results = Append(pass.results, pass.result)

\* C11: the stored last_sync of a scope never decreases, and it changes only on the
\* step that completes a pass over that very scope: not while documents are still
\* queued, not by a pass over another scope, not by a pass that a fatal error ended.
CursorMonotonic ==
  [][\A ns \in ScopeNames :
       /\ LastSync(sync_state', ns) >= LastSync(sync_state, ns)
       /\ LastSync(sync_state', ns) # LastSync(sync_state, ns)
            => ScopeCompletes /\ pass.scope = ns
       /\ (pass.pc = "docs" /\ pass'.pc = "idle") => sync_state' = sync_state]_vars

\* an incremental pass has completed ns1 and moved its cursor past the one it found
CursorAdvancedAgain ==
  /\ pass.pc = "scopes"
  /\ pass.scope = "ns1"
  /\ pass.cutoff # NoDate
  /\ Len(pass.results) = 1
  /\ LastSync(sync_state, "ns1") > pass.cutoff

\* ------------------------------------------------------------ failures inside a pass

\* the step on which the document at the head of the queue is recorded as failed
DocFails ==
  /\ pass.pc = "docs"
  /\ pass.queue # <<>>
  /\ pass'.handled = Append(pass.handled, Handled(Head(pass.queue), "error"))

Outcomes(h) == [i \in DOMAIN h |-> h[i].outcome]
Documents(h) == [i \in DOMAIN h |-> h[i].doc]
ErrorsOf(h) == SelectSeq(h, LAMBDA x : x.outcome = "error")

ScopeEnumerated ==
  /\ pass.pc = "docs"
  /\ pass.phase = "artifacts"
  /\ pass.queue = <<>>
  /\ pass' # pass

\* C13: the step that follows the enumeration of a scope stores, for (wcp, scope), one
\* row whose last_sync is the time of that step and whose cursor equals last_sync,
\* whatever number of documents of the pass failed.
CursorAlwaysAdvanced ==
  [][ScopeEnumerated =>
       /\ Cardinality(GetSyncState(sync_state', "wcp", pass.scope)) = 1
       /\ \A st \in GetSyncState(sync_state', "wcp", pass.scope) :
            st.last_sync = now /\ st.cursor = st.last_sync
       /\ now' > now]_vars

\* ns2 is through with its only document failed, and its cursor was written
AllFailedCursorWritten ==
  /\ pass.pc = "scopes"
  /\ pass.scope = "ns2"
  /\ Outcomes(pass.handled) = <<"error">>
  /\ LastSync(sync_state, "ns2") = now - 1

\* ------------------------------------------------------------ incremental and full passes

\* the step on which the existing document f, at the head of the queue, is dealt with
DocHandled(f) ==
  /\ pass.pc = "docs"
  /\ pass.queue # <<>>
  /\ Head(pass.queue) = f
  /\ f \in DOMAIN files
  /\ Len(pass'.handled) = Len(pass.handled) + 1

\* f was last modified before the cursor stored for the scope of the pass
OlderThanCursor(f) ==
  /\ LastSync(sync_state, pass.scope) # NoDate
  /\ files[f].mtime < LastSync(sync_state, pass.scope)

\* C14: a document reached by a pass is skipped if and only if the pass is not full,
\* a cursor is stored for its scope, and the document was modified before that cursor;
\* otherwise (full pass, no cursor, or modified at or after the cursor) it is
\* processed.  A skipped document leaves the store as it was.
IncrementalVersusFull ==
  [][\A f \in FilePaths :
       DocHandled(f) =>
         LET h == pass'.handled[Len(pass'.handled)]
         IN /\ h.doc = f
            /\ h.outcome \in {"skipped", "ok", "error"}
            /\ h.outcome = "skipped" <=> (~pass.full /\ OlderThanCursor(f))
            /\ h.outcome = "skipped" => UNCHANGED <<nodes, edges, embeddings, sync_state>>]_vars

\* a non-full pass over ns1, which had a cursor, has skipped the older ns1/A.md and
\* processed ns1/B.md, edited after the cursor was written
OlderSkippedNewerProcessed ==
  /\ ~pass.full
  /\ pass.scope = "ns1"
  /\ pass.cutoff # NoDate
  /\ Len(pass.handled) >= 2
  /\ pass.handled[1] = Handled("ns1/A.md", "skipped")
  /\ pass.handled[2] = Handled("ns1/B.md", "ok")
  /\ {"ns1/A.md", "ns1/B.md"} \subseteq DOMAIN files
  /\ files["ns1/A.md"].mtime < pass.cutoff
  /\ files["ns1/B.md"].mtime >= pass.cutoff

\* ------------------------------------------------------------ scopes

\* C15: a step of a pass over one scope leaves every node that was ingested from
\* another scope (its project is that other scope) with its title, body and project.
ScopeIndependence ==
  [][pass.pc = "docs" =>
       \A n \in nodes :
         (n.source = "wcp" /\ n.project \in ScopeNames \ {pass.scope}) =>
           \E m \in nodes' :
             m.id = n.id /\ m.title = n.title /\ m.body = n.body /\ m.project = n.project]_vars

\* ------------------------------------------------------------ graph neighbourhood

\* the ids of the nodes skein_get returned: the seed and the neighbors
ReturnedIds == {walk.result.node.id} \cup {n.id : n \in walk.result.neighbors}

\* a call on an existing seed has returned
Returned == walk.pc = "done" /\ walk.result.error = ""

Adjacent(a, b) ==
  \E e \in edges : \/ e.source_id = a /\ e.target_id = b
                   \/ e.source_id = b /\ e.target_id = a

\* n is at most k undirected edges away from seed: there is a walk of k steps from
\* seed to n, each step along an edge or staying in place
WithinDistance(seed, n, k) ==
  \E p \in [0..k -> NodeIds(nodes)] :
    /\ p[0] = seed
    /\ p[k] = n
    /\ \A i \in 1..k : p[i - 1] = p[i] \/ Adjacent(p[i - 1], p[i])

\* C16: for an existing seed and depth >= 1 the returned nodes are exactly the nodes
\* at undirected edge distance at most depth from the seed, the seed included.
BfsCorrect ==
  (Returned /\ walk.depth >= 1) =>
    ReturnedIds = {n \in NodeIds(nodes) : WithinDistance(walk.seed, n, walk.depth)}

\* on the path 1-2-3-4 alone, the call with seed 1 and depth 2 returned 1, 2 and 3
PathWalkedTwoDeep ==
  /\ Returned
  /\ edges = {e \in WalkEdges : e.id < MaxWalkNodes}
  /\ walk.seed = 1
  /\ walk.depth = 2
  /\ ReturnedIds = {1, 2, 3}

\* what holds of a traversal at every moment: one frontier per round, at most depth
\* rounds, no node in two frontiers, no empty frontier expanded, and a traversal that
\* is past its loop either ran depth rounds or met an empty frontier
WalkBounded ==
  /\ Len(walk.expanded) = walk.round
  /\ walk.round <= walk.depth
  /\ \A i \in DOMAIN walk.expanded :
       /\ walk.expanded[i] # {}
       /\ \A j \in DOMAIN walk.expanded : i # j => walk.expanded[i] \cap walk.expanded[j] = {}
  /\ walk.pc = "rounds" => walk.frontier # {} /\ walk.round < walk.depth
  /\ (walk.pc \in {"collect", "done"} /\ walk.round < walk.depth /\ walk.round > 0)
       => walk.frontier = {}

\* C17: a traversal that was started returns, whatever cycles, self-loops and parallel
\* edges the graph has; it runs at most depth rounds, expands no node in more than
\* one round, and leaves its loop early once a frontier is empty.
BfsTerminates ==
  /\ []WalkBounded
  /\ (walk.pc = "rounds") ~> (walk.pc = "done")

\* on a graph with the cycle 1-2-3, the self-loop and the parallel edge, a call with
\* seed 1 and depth 3 returned after two rounds
CyclicWalkStoppedEarly ==
  /\ Returned
  /\ {e \in WalkEdges : e.id \in {1, 2} \cup (MaxWalkNodes..(MaxWalkNodes + 2))} \subseteq edges
  /\ walk.seed = 1
  /\ walk.depth = 3
  /\ walk.round = 2
  /\ walk.frontier = {}

SelfLoopsOf(id) == {e \in edges : e.source_id = id /\ e.target_id = id}
EdgesAt(id) == {e \in edges : e.source_id = id \/ e.target_id = id}

\* C18: when the seed has no edge, or self-loops only, the call with depth 3 returns
\* the seed alone and no edge other than the seed's self-loops.
DegenerateWalk ==
  (Returned /\ walk.depth = 3 /\ EdgesAt(walk.seed) = SelfLoopsOf(walk.seed)) =>
    /\ ReturnedIds = {walk.seed}
    /\ walk.result.neighbors = {}
    /\ BagToSet(walk.result.edges) \subseteq SelfLoopsOf(walk.seed)

\* node 1 has its self-loop and no other edge, other nodes are connected, and the
\* call with seed 1 and depth 3 returned with the self-loop among its edges
SelfLoopSeedWalked ==
  /\ Returned
  /\ walk.seed = 1
  /\ walk.depth = 3
  /\ EdgesAt(1) = SelfLoopsOf(1)
  /\ SelfLoopsOf(1) # {}
  /\ edges # SelfLoopsOf(1)
  /\ BagToSet(walk.result.edges) = SelfLoopsOf(1)

\* C19: every stored edge with both endpoints among the returned nodes is in the
\* returned edge list (stated for the calls that traverse, depth >= 1).
EdgesComplete ==
  (Returned /\ walk.depth >= 1) =>
    \A e \in edges :
      ({e.source_id, e.target_id} \subseteq ReturnedIds) => BagIn(e, walk.result.edges)

\* ------------------------------------------------------------ lexical normalization

RawScore(i) == search.raw[i][2]
NormOf(i) == search.fts[i][2]

\* C20: for a non-empty list of raw scores every normalized score is a quotient in
\* [0, 1]; a lowest raw score gets 1; a highest gets 0 when the scores differ; all get
\* 1 when the scores are equal; and a lower raw score never gets a lower normalized one.
LexicalNormalized ==
  search.raw # <<>> =>
    /\ DOMAIN search.fts = DOMAIN search.raw
    /\ \A i \in DOMAIN search.raw :
         /\ search.fts[i][1] = search.raw[i][1]
         /\ NormOf(i).den > 0
         /\ 0 <= NormOf(i).num
         /\ NormOf(i).num <= NormOf(i).den
         /\ (\A j \in DOMAIN search.raw : RawScore(i) <= RawScore(j))
              => NormOf(i).num = NormOf(i).den
         /\ (\A j \in DOMAIN search.raw : RawScore(i) >= RawScore(j))
              => (\/ NormOf(i).num = 0
                  \/ \A j \in DOMAIN search.raw : RawScore(j) = RawScore(i))
         /\ \A j \in DOMAIN search.raw :
              RawScore(i) < RawScore(j)
                => NormOf(i).num * NormOf(j).den >= NormOf(j).num * NormOf(i).den

\* three rows with the raw scores -2, -1 and 0 were normalized to 1, 1/2 and 0
ThreeScoresNormalized ==
  /\ Len(search.raw) = 3
  /\ [i \in 1..3 |-> search.raw[i][2]] = <<0 - 2, 0 - 1, 0>>
  /\ [i \in 1..3 |-> search.fts[i][2]] = <<Quotient(2, 2), Quotient(1, 2), Quotient(0, 2)>>

\* ------------------------------------------------------------ score fusion

QGe(a, b) == a.num * b.den >= b.num * a.den
QEq(a, b) == a.num * b.den = b.num * a.den

\* a search call that got past its lexical query, ranked or returned
Searched == rank.op = "search" /\ rank.status = "ok" /\ rank.pc \in {"ranked", "done"}

SearchDone == rank.op = "search" /\ rank.status = "ok" /\ rank.pc = "done"

\* the candidates of the two signals, and the score each signal gave a node
FtsIds == {rank.fts[i][1] : i \in DOMAIN rank.fts}
VectorIds == {rank.vector[i][1] : i \in DOMAIN rank.vector}
ScoredIds == {rank.scored[i].node_id : i \in DOMAIN rank.scored}
ResultIds == {rank.results[i].node.id : i \in DOMAIN rank.results}

LexicalOf(id) ==
  IF id \in FtsIds THEN rank.fts[CHOOSE i \in DOMAIN rank.fts : rank.fts[i][1] = id][2]
  ELSE [num |-> 0, den |-> 1]

VectorOf(id) ==
  IF id \in VectorIds
  THEN rank.vector[CHOOSE i \in DOMAIN rank.vector : rank.vector[i][1] = id][2]
  ELSE [num |-> 0, den |-> 1]

\* 0.4 x lexical + 0.6 x vector, as one quotient
WeightedSum(id) ==
  [num |-> 4 * LexicalOf(id).num * VectorOf(id).den + 6 * VectorOf(id).num * LexicalOf(id).den,
   den |-> 10 * LexicalOf(id).den * VectorOf(id).den]

NonIncreasing(list) ==
  \A i \in DOMAIN list : \A j \in DOMAIN list : i < j => QGe(list[i].score, list[j].score)

\* C21: search ranks the union of the lexical and the vector candidates, a node that
\* one signal did not find counting 0.0 there; each score is 0.4 x lexical + 0.6 x
\* vector; the ranked list is in non-increasing score order, without a repeated id, at
\* most `limit` long, and no candidate left out scores higher than one that is in;
\* the results are the ranked entries whose id still resolves, in the same order.
FusionAndOrdering ==
  /\ Searched =>
       /\ ScoredIds \subseteq FtsIds \cup VectorIds
       /\ \A i \in DOMAIN rank.scored :
            QEq(rank.scored[i].score, WeightedSum(rank.scored[i].node_id))
       /\ NonIncreasing(rank.scored)
       /\ Cardinality(ScoredIds) = Len(rank.scored)
       /\ Len(rank.scored) <= rank.args.limit
       /\ \A c \in (FtsIds \cup VectorIds) \ ScoredIds :
            /\ Len(rank.scored) = rank.args.limit
            /\ \A i \in DOMAIN rank.scored : QGe(rank.scored[i].score, WeightedSum(c))
  /\ SearchDone =>
       /\ ResultIds = ScoredIds \cap NodeIds(nodes)
       /\ Cardinality(ResultIds) = Len(rank.results)
       /\ Len(rank.results) <= rank.args.limit
       /\ NonIncreasing(rank.results)
       /\ \A i \in DOMAIN rank.results :
            /\ rank.results[i].node \in nodes
            /\ QEq(rank.results[i].score, WeightedSum(rank.results[i].node.id))
       /\ \A i \in DOMAIN rank.results : \A j \in DOMAIN rank.results :
            i < j => \E a \in DOMAIN rank.scored : \E b \in DOMAIN rank.scored :
                       /\ a < b
                       /\ rank.scored[a].node_id = rank.results[i].node.id
                       /\ rank.scored[b].node_id = rank.results[j].node.id

\* a search ranked a node only the lexical signal found and a node only the vector
\* signal found, one of the two was deleted before the fetch, and the other was returned
OneSignalEachOneDeleted ==
  /\ SearchDone
  /\ Len(rank.scored) = 2
  /\ ScoredIds \cap (FtsIds \ VectorIds) # {}
  /\ ScoredIds \cap (VectorIds \ FtsIds) # {}
  /\ Len(rank.results) = 1
  /\ ScoredIds \ NodeIds(nodes) # {}

\* C22: when the lexical query raises, search does not fail: it has no lexical
\* candidate, and its ranking is the vector ranking cut to `limit`, each score being
\* 0.6 x the rescaled similarity.
DegradedLexical ==
  (rank.op = "search" /\ rank.q.fts_raises /\ rank.pc \in {"ranked", "done"}) =>
    /\ rank.status = "ok"
    /\ rank.fts = <<>>
    /\ Len(rank.scored) = IF Len(rank.vector) <= rank.args.limit THEN Len(rank.vector)
                          ELSE rank.args.limit
    /\ \A i \in DOMAIN rank.scored :
         /\ rank.scored[i].node_id = rank.vector[i][1]
         /\ rank.scored[i].score.num * 10 * rank.vector[i][2].den
              = 6 * rank.vector[i][2].num * rank.scored[i].score.den
    /\ rank.pc = "done" =>
         /\ ResultIds = ScoredIds \cap NodeIds(nodes)
         /\ \A i \in DOMAIN rank.results :
              QEq(rank.results[i].score, WeightedSum(rank.results[i].node.id))

\* a search whose lexical query raised returned two nodes with different scores
DegradedReturnedTwo ==
  /\ rank.op = "search"
  /\ rank.pc = "done"
  /\ rank.q.fts_raises
  /\ Len(rank.results) = 2
  /\ ~QEq(rank.results[1].score, rank.results[2].score)

\* the nodes a finished call returned, and the candidates it went through
ReturnedNodes ==
  {rank.results[i].node : i \in DOMAIN rank.results}
    \cup {rank.primary[i].node : i \in DOMAIN rank.primary}
    \cup {rank.cross[i].node : i \in DOMAIN rank.cross}

ArchivedIds == {n.id : n \in {m \in nodes : m.archived}}

\* C23: no archived node is among the candidates of either signal or among the nodes
\* search, context_search and list_nodes return, with or without filters; the
\* embedding row, the index row and the edges of an archived node stay in the store
\* (an edge goes only when its other endpoint is deleted).
ArchivedInvisible ==
  /\ \A n \in ReturnedNodes : ~n.archived
  /\ (FtsIds \cup VectorIds \cup ScoredIds) \cap ArchivedIds = {}
  /\ \A id \in ArchivedIds :
       /\ \E m \in embeddings : m.node_id = id
       /\ \E row \in BagToSet(nodes_fts) : row.rowid = id
  /\ \A e \in RankEdges :
       ({e.source_id, e.target_id} \subseteq NodeIds(nodes)) => e \in edges

\* a search filtered by the archived node's own project returned nodes, while the
\* archived node is the best match of both signals and keeps its vector and its edge
ArchivedBestMatchLeftOut ==
  /\ SearchDone
  /\ rank.args.project_filter = "p1"
  /\ rank.results # <<>>
  /\ \E n \in nodes :
       /\ n.archived
       /\ n.project = "p1"
       /\ \A id \in NodeIds(nodes) : rank.q.bm25[n.id] <= rank.q.bm25[id]
       /\ \A id \in DOMAIN rank.q.sim : rank.q.sim[n.id] >= rank.q.sim[id]
       /\ \E m \in embeddings : m.node_id = n.id
       /\ \E e \in edges : e.target_id = n.id

\* C28: every candidate of the lexical signal, every candidate of the vector signal
\* and every node a search returns has the type of the call's type filter and the
\* project of its project filter, for each filter that is given.
PassesFilters(n) ==
  /\ ~Falsy(rank.args.type_filter) => n.type = rank.args.type_filter
  /\ ~Falsy(rank.args.project_filter) => n.project = rank.args.project_filter

FiltersBindBoth ==
  /\ Searched =>
       \A id \in FtsIds \cup VectorIds \cup ScoredIds :
         \A n \in nodes : n.id = id => PassesFilters(n)
  /\ SearchDone => \A i \in DOMAIN rank.results : PassesFilters(rank.results[i].node)

\* a search filtered by project returned one node that only the vector signal found
\* and one that only the lexical signal found, while a node of another project
\* matched both signals
FilteredBothSignals ==
  /\ SearchDone
  /\ rank.args.project_filter = "p1"
  /\ ResultIds \cap (VectorIds \ FtsIds) # {}
  /\ ResultIds \cap (FtsIds \ VectorIds) # {}
  /\ \E n \in nodes : /\ n.project = "p2"
                      /\ rank.q.bm25[n.id] # NoMatch
                      /\ n.id \in DOMAIN rank.q.sim

\* -------------------------------------------------------- context retrieval

ContextDone == rank.op = "context_search" /\ rank.pc = "done"

PrimaryIds == {rank.primary[i].node.id : i \in DOMAIN rank.primary}
CrossIds == {rank.cross[i].node.id : i \in DOMAIN rank.cross}

\* C24: in context_search with a project given, every node the project-scoped search
\* returned is in the final result.
CrossNeverDisplaces ==
  (ContextDone /\ ~Falsy(rank.args.project_filter)) => PrimaryIds \subseteq ResultIds

\* the score a node had before the recency bonus: the project-scoped search's when it
\* found the node, the unscoped search's otherwise
BaseScore(id) ==
  IF id \in PrimaryIds
  THEN rank.primary[CHOOSE i \in DOMAIN rank.primary : rank.primary[i].node.id = id].score
  ELSE rank.cross[CHOOSE i \in DOMAIN rank.cross : rank.cross[i].node.id = id].score

\* C26: the list context_search returns is in non-increasing order of boosted score,
\* each being the node's base score plus its recency bonus, is at most `limit` long and
\* holds no node id twice, also when both searches found the same node.
ContextShape ==
  ContextDone =>
    /\ NonIncreasing(rank.results)
    /\ Len(rank.results) <= rank.args.limit
    /\ Cardinality(ResultIds) = Len(rank.results)
    /\ ResultIds \subseteq PrimaryIds \cup CrossIds
    /\ \A i \in DOMAIN rank.results :
         QEq(rank.results[i].score,
             QAdd(BaseScore(rank.results[i].node.id),
                  RecencyBoost(rank.results[i].node.updated_at, rank.args.recency_boost, now)))

\* both searches found the same node, together they returned more than `limit`
\* entries, and two nodes with different boosted scores were returned
FoundByBothSearches ==
  /\ ContextDone
  /\ rank.args.project_filter = "p1"
  /\ PrimaryIds \cap CrossIds # {}
  /\ Len(rank.primary) + Len(rank.cross) > rank.args.limit
  /\ Len(rank.results) = 2
  /\ ~QEq(rank.results[1].score, rank.results[2].score)

\* ------------------------------------------------------------ recency bonus

RecencyDone == rank.op = "recency" /\ rank.pc = "done"

Dated(i) == rank.stamps[i] \notin {NoDate, BadDate}
AgeOf(i) == now - rank.stamps[i]

\* the value of the bonus for one timestamp
BonusValue(i) ==
  LET b == rank.args.recency_boost
      x == rank.bonus[i]
  IN /\ ~Dated(i) => x.num = 0
     /\ Dated(i) =>
          /\ AgeOf(i) <= 7 => QEq(x, b)
          /\ AgeOf(i) >= 90 => x.num = 0
          /\ (7 < AgeOf(i) /\ AgeOf(i) < 90) =>
               x.num * 83 * b.den = b.num * (90 - AgeOf(i)) * x.den
     /\ b.num >= 0 => (x.num * x.den >= 0 /\ QGe(b, x))

BonusNonIncreasing ==
  \A i \in DOMAIN rank.bonus : \A j \in DOMAIN rank.bonus :
    (Dated(i) /\ Dated(j) /\ AgeOf(i) <= AgeOf(j)) => QGe(rank.bonus[i], rank.bonus[j])

BonusStrictlyDecreasing ==
  \A i \in DOMAIN rank.bonus : \A j \in DOMAIN rank.bonus :
    (Dated(i) /\ Dated(j) /\ 7 <= AgeOf(i) /\ AgeOf(i) < AgeOf(j) /\ AgeOf(j) <= 90)
      => ~QGe(rank.bonus[j], rank.bonus[i])

\* C25 as stated: the bonus is recencyBoost up to 7 days, 0 from 90 days and for a
\* missing or unparseable timestamp, recencyBoost x (90 - age) / 83 in between, within
\* [0, recencyBoost], non-increasing in age and strictly decreasing on [7, 90].
RecencyShapeStrict ==
  RecencyDone =>
    /\ \A i \in DOMAIN rank.bonus : BonusValue(i)
    /\ BonusNonIncreasing
    /\ BonusStrictlyDecreasing

\* C25: the same values and bounds, non-increasing in age, and strictly decreasing on
\* [7, 90] when recencyBoost is positive (with recencyBoost = 0 the bonus is 0 at
\* every age).
RecencyShape ==
  RecencyDone =>
    /\ \A i \in DOMAIN rank.bonus : BonusValue(i)
    /\ BonusNonIncreasing
    /\ rank.args.recency_boost.num > 0 => BonusStrictlyDecreasing
    /\ rank.args.recency_boost.num = 0 => \A i \in DOMAIN rank.bonus : rank.bonus[i].num = 0

\* a positive recencyBoost applied to ages of 48 and 89 days gave two bonuses strictly
\* between 0 and recencyBoost, the older one smaller
DecayedTwice ==
  /\ RecencyDone
  /\ rank.args.recency_boost.num > 0
  /\ AgeOf(1) = 48
  /\ AgeOf(2) = 89
  /\ rank.bonus[2].num > 0
  /\ ~QGe(rank.bonus[2], rank.bonus[1])
  /\ ~QGe(rank.bonus[1], rank.args.recency_boost)

\* ------------------------------------------------------------ lexical index

\* C27: after every insert and every update in place the lexical index holds exactly
\* one entry per stored node, carrying the node's current title and body, and no entry
\* with any other text: a query right after a write cannot match the overwritten text
\* and can match the new one.
IndexConsistent ==
  /\ \A n \in nodes :
       CopiesIn([rowid |-> n.id, title |-> n.title, body |-> n.body], nodes_fts) = 1
  /\ \A row \in BagToSet(nodes_fts) :
       \E n \in nodes : n.id = row.rowid /\ n.title = row.title /\ n.body = row.body

\* upsert_node rewrote in place the node a sync pass had created from a document: the
\* index holds its new text and nothing else for it
IndexedAfterUpdateInPlace ==
  /\ ret.op = "upsert_node"
  /\ ret.status = "ok"
  /\ ~ret.created
  /\ ret.node.created_at = 0
  /\ ret.node.title = "t2"
  /\ ret.node \in nodes
  /\ \A row \in BagToSet(nodes_fts) :
       row.rowid = ret.node.id => (row.title = "t2" /\ row.body = "b2")
  /\ \E row \in BagToSet(nodes_fts) : row.rowid = ret.node.id

\* ------------------------------------------------------------ sync counts

\* C29: each ingested document adds to edges_created exactly the number of edge rows
\* its ingestion added to the store, also when the parent edge already exists.
EdgesCreatedMatchesStore ==
  [][IngestStep =>
       pass'.result.edges_created - pass.result.edges_created
         = Cardinality(edges') - Cardinality(edges)]_vars

\* ------------------------------------------------------------ node and embedding

\* skein_add or the ingestion of one document got as far as writing the node
EmbedStep ==
  \/ /\ pass.pc = "idle"
     /\ ret'.op = "skein_add"
     /\ nextNodeId' = nextNodeId + 1
  \/ IngestStep

EmbeddingsOf(M, id) == {m \in M : m.node_id = id}

DocBodies == {d.body : d \in UNION {Variants(f) : f \in FilePaths}}
DocActivities == {d.activity : d \in UNION {Variants(f) : f \in FilePaths}} \ {""}

\* the body of a work item node up to its activity section
WithoutActivity(body) ==
  IF \E x \in DocBodies : \E a \in DocActivities :
       body = x \o "\n" \o "\n\n## Activity\n\n" \o a
  THEN CHOOSE x \in DocBodies : \E a \in DocActivities :
         body = x \o "\n" \o "\n\n## Activity\n\n" \o a
  ELSE body

\* the text of a stored node that its embedding is made of
EmbeddedText(n) ==
  n.title \o "\n\n" \o (CASE n.type = "work_item" -> WithoutActivity(n.body)
                          [] n.type = "document" -> Truncate(n.body)
                          [] OTHER -> n.body)

Reflected(f) ==
  \E n \in nodes :
    /\ n.source = "wcp"
    /\ n.source_uri = f
    /\ n.title = DocNode(f, files[f].doc, 0, 0).title
    /\ n.body = DocNode(f, files[f].doc, 0, 0).body

\* the cursor of f's scope is later than f's modification time: every later
\* non-full pass skips f for as long as f is not modified again
BehindCursor(f) ==
  \E st \in sync_state :
    /\ st.connector = "wcp"
    /\ st.source_key = PathInfo[f].ns
    /\ files[f].mtime < st.last_sync

\* C31: no modification is lost: between passes, a well-formed document that was
\* modified and that the later non-full passes will skip is reflected in the store.
NoModificationLost ==
  pass.pc = "idle" =>
    \A f \in Edited : (files[f].doc.ok /\ BehindCursor(f)) => Reflected(f)

\* ------------------------------------------------------------ parent edges

\* the stored node of the work item whose file is f
ItemNodes(f) == {n \in nodes : n.source = "wcp" /\ n.source_id = ItemId(f, files[f].doc)}

\* work items of one scope of which the first declares the second as its parent
Declares(c, p) ==
  /\ c \in DOMAIN files /\ p \in DOMAIN files /\ c # p
  /\ PathInfo[c].kind = "item" /\ PathInfo[p].kind = "item"
  /\ PathInfo[c].ns = PathInfo[p].ns
  /\ files[c].doc.ok /\ files[p].doc.ok
  /\ ParentKey(c, files[c].doc) = ItemId(p, files[p].doc)

\* C32: parent edges do not depend on enumeration order: between passes, when the
\* store holds the nodes of a child document and of the parent it declares, it
\* holds the edge from the child's node to the parent's node.
ParentEdgeAnyOrder ==
  pass.pc = "idle" =>
    \A c \in DOMAIN files, p \in DOMAIN files :
      Declares(c, p) =>
        \A cn \in ItemNodes(c), pn \in ItemNodes(p) :
          \E e \in edges : e.source_id = cn.id /\ e.target_id = pn.id /\ e.type = "depends_on"

\* ------------------------------------------------------------ failed documents

\* C33: a failed document is not retried by incremental sync: the cursor written when
\* a scope completes is later than the modification time of every document that
\* failed in it, a stored cursor never moves back, and a pass processes a document
\* that is older than the stored cursor of its scope only when the pass is full.
FailedNotRetried ==
  [][/\ ScopeEnumerated =>
          \A i \in DOMAIN pass.handled :
            (pass.handled[i].outcome = "error" /\ pass.handled[i].doc \in DOMAIN files) =>
              files[pass.handled[i].doc].mtime < LastSync(sync_state', pass.scope)
     /\ \A f \in FilePaths :
          LastSync(sync_state', PathInfo[f].ns) >= LastSync(sync_state, PathInfo[f].ns)
     /\ \A f \in FilePaths :
          (DocHandled(f) /\ pass'.handled[Len(pass'.handled)].outcome # "skipped") =>
            (pass.full \/ ~OlderThanCursor(f))]_vars

\* ns1/A.md failed at the embedding step of the first pass, which left its node with no
\* embedding; it was not modified since and a later non-full pass has skipped it
FailedSkippedLater ==
  /\ ~pass.full
  /\ pass.scope = "ns1"
  /\ pass.cutoff # NoDate
  /\ "ns1/A.md" \in DOMAIN files \ Edited
  /\ \E i \in DOMAIN pass.handled : pass.handled[i] = Handled("ns1/A.md", "skipped")
  /\ \E n \in nodes : n.source_uri = "ns1/A.md" /\ \A m \in embeddings : m.node_id # n.id

\* ------------------------------------------------------------ skein_add and its edges

\* the step of a skein_add call that raised while it created its edges
AddRaisedAtEdge ==
  /\ ret'.op = "skein_add"
  /\ nextNodeId' = nextNodeId + 1
  /\ ret'.status = "raise"
  /\ ret'.msg # "embed failed"

\* C34: createNode is all-or-nothing: a call that fails while creating one of its
\* edges leaves no node row, embedding row or edge row of that call in the store.
AddAllOrNothing ==
  [][AddRaisedAtEdge => UNCHANGED <<nodes, embeddings, edges>>]_vars

\* ------------------------------------------------------------ closed traversal result

\* C35: the traversal result is closed: both endpoints of every returned edge are
\* returned nodes, and every returned node other than the seed is an endpoint of a
\* returned edge.
ResultClosed ==
  Returned =>
    /\ \A e \in BagToSet(walk.result.edges) : {e.source_id, e.target_id} \subseteq ReturnedIds
    /\ \A n \in walk.result.neighbors :
         \E e \in BagToSet(walk.result.edges) : n.id \in {e.source_id, e.target_id}

\* a walk two deep returned two or more neighbours and stopped short of a stored node
ClosedShortOfStore ==
  /\ Returned
  /\ walk.depth = 2
  /\ Cardinality(walk.result.neighbors) >= 2
  /\ ReturnedIds # NodeIds(nodes)
  /\ \E e \in edges : ~({e.source_id, e.target_id} \subseteq ReturnedIds)

\* ------------------------------------------------------------ dedup under interleaving

\* C36: when no upsert_node call is between its lookup and its write, the store holds
\* at most one node for every non-null (source, source_id).
DedupUnderInterleaving ==
  (\A c \in Callers : callers[c].pc # "looked") =>
    \A n \in nodes, m \in nodes :
      (~Falsy(n.source_id) /\ n.source = m.source /\ n.source_id = m.source_id) => n = m

\* ------------------------------------------------------------ fix-capture hook

\* how main() takes an output: the failure test comes first
Classified(tool_output) ==
  IF IsFailure(tool_output) THEN "failure"
  ELSE IF IsSuccess(tool_output) THEN "success"
  ELSE "other"

\* a step that is a run of the hook on a Bash test or build command
TestRun ==
  /\ hook'.runs = hook.runs + 1
  /\ hook'.last.tool_name = "Bash"
  /\ hook'.last.suite # NULL

\* before the run, the state file held a failure of the suite younger than the window at t
HeldRecent(suite, t) ==
  /\ suite \in DOMAIN hook.failures
  /\ t - hook.failures[suite] < FAILURE_WINDOW_SECONDS

\* C37: a run of the hook on a test or build command exits 2 exactly when the output
\* is taken as a success and the state file held a failure of the same suite less than
\* 30 minutes old, and 0 otherwise; the run that exits 2 removes that failure, and a
\* failing run records the suite's failure with the time of the run.
FixCaptureStateMachine ==
  [][TestRun =>
       /\ hook'.last.code \in {0, 2}
       /\ hook'.last.code = 2 <=>
            (/\ Classified(hook'.last.tool_output) = "success"
             /\ HeldRecent(hook'.last.suite, hook'.last.t))
       /\ hook'.last.code = 2 => hook'.last.suite \notin DOMAIN hook'.failures
       /\ Classified(hook'.last.tool_output) = "failure" =>
            /\ hook'.last.suite \in DOMAIN hook'.failures
            /\ hook'.failures[hook'.last.suite] = hook'.last.t]_vars

\* the third run nudged for one suite while the failure of the other suite stays recorded
NudgedOtherSuiteHeld ==
  /\ hook.runs = 3
  /\ hook.last.code = 2
  /\ DOMAIN hook.failures = Suites \ {hook.last.suite}

\* ------------------------------------------------------------ hook registration

\* the entries of a PostToolUse list that hold the marker, and the others
KgEntries(post_tool) == SelectSeq(post_tool, LAMBDA entry : MentionsMarker(entry))
OtherEntries(post_tool) == SelectSeq(post_tool, LAMBDA entry : ~MentionsMarker(entry))

\* install was run one or more times and nothing else
OnlyInstalls == settings.log # <<>> /\ \A i \in DOMAIN settings.log : settings.log[i] = "install"

\* install was run one or more times, then uninstall once
InstallsThenUninstall ==
  /\ Len(settings.log) >= 2
  /\ \A i \in DOMAIN settings.log :
       settings.log[i] = IF i = Len(settings.log) THEN "uninstall" ELSE "install"

\* C38 as stated: after any number of install runs the list holds exactly one KG hook
\* entry and every pre-existing entry, unchanged and in order; a following uninstall
\* removes the KG entry and leaves the other entries unchanged.
RegistrationIdempotent ==
  settings.file = "ok" =>
    /\ OnlyInstalls =>
         /\ Len(KgEntries(settings.post_tool)) = 1
         /\ SelectSeq(settings.post_tool, LAMBDA entry : entry # KG_HOOK_ENTRY) = settings.before
    /\ InstallsThenUninstall =>
         /\ KgEntries(settings.post_tool) = <<>>
         /\ OtherEntries(settings.post_tool) = OtherEntries(settings.before)

\* C38, amended: through any runs of install and uninstall the entries that do not
\* mention the marker stay as they were, in order, and a malformed file is left alone;
\* after install the list holds one entry that mentions the marker, the appended
\* KG_HOOK_ENTRY, unless entries that mention it were there before and no uninstall
\* has removed them, in which case install adds nothing; after uninstall no entry
\* mentions the marker.
RegistrationByMarker ==
  /\ OtherEntries(settings.post_tool) = OtherEntries(settings.before)
  /\ settings.file = "malformed" => settings.post_tool = settings.before
  /\ (settings.file = "ok" /\ OnlyInstalls) =>
       settings.post_tool = IF KgEntries(settings.before) = <<>>
                            THEN Append(settings.before, KG_HOOK_ENTRY)
                            ELSE settings.before
  /\ (settings.file = "ok" /\ settings.log # <<>> /\ ~OnlyInstalls) =>
       IF settings.log[Len(settings.log)] = "install"
       THEN KgEntries(settings.post_tool) = <<KG_HOOK_ENTRY>>
       ELSE KgEntries(settings.post_tool) = <<>>

\* two installs and an uninstall on a list that held a hook of the user's and an entry
\* written by hand that mentions the marker: only the user's hook is left
HandWrittenEntryRemoved ==
  /\ settings.log = <<"install", "install", "uninstall">>
  /\ Len(settings.before) = 2
  /\ Len(KgEntries(settings.before)) = 1
  /\ settings.post_tool = OtherEntries(settings.before)

====
